---- MODULE Spec2Model ----
(***************************************************************************)
(* Verification model of the observability wrapper (package otel):         *)
(*   - the gauge engine of the metric registry (RecordGauge, the           *)
(*     collection callback of registerGauge, hashAttrs, mapToAttribute),   *)
(*   - the fan-out log handler (multiHandler).                             *)
(* Strings are sequences of byte codes, so that concatenation and the      *)
(* byte-wise order of Go strings are computed, not assumed.                *)
(***************************************************************************)
EXTENDS Integers, Sequences, FiniteSets, Bags, TLC

(***************************************************************************)
(* Strings                                                                 *)
(***************************************************************************)
\* byte codes of the characters used
ChEq == 61
ChBar == 124

\* "host", "zone", "a", "b", "x", "true", "false"
StrHost == <<104, 111, 115, 116>>
StrZone == <<122, 111, 110, 101>>
StrA == <<97>>
StrB == <<98>>
StrX == <<120>>
StrTrue == <<116, 114, 117, 101>>
StrFalse == <<102, 97, 108, 115, 101>>

\* Go's s < t on strings: byte-wise lexicographic order
RECURSIVE StrLess(_, _)
StrLess(s, t) ==
    IF t = <<>> THEN FALSE
    ELSE IF s = <<>> THEN TRUE
    ELSE IF Head(s) # Head(t) THEN Head(s) < Head(t)
    ELSE StrLess(Tail(s), Tail(t))

\* strconv.FormatInt(n, 10) for n >= 0 (48 is '0', 45 is '-')
RECURSIVE FormatNat(_)
FormatNat(n) ==
    IF n < 10 THEN <<48 + n>>
    ELSE Append(FormatNat(n \div 10), 48 + (n % 10))

\* strconv.FormatInt(n, 10)
FormatInt(n) == IF n < 0 THEN <<45>> \o FormatNat(0 - n) ELSE FormatNat(n)

\* strconv.FormatBool(b)
FormatBool(b) == IF b THEN StrTrue ELSE StrFalse

(***************************************************************************)
(* Attributes: mapToAttribute, attribute.Value.Emit, hashAttrs             *)
(***************************************************************************)
\* a Go value of dynamic type `kind` held in a map[string]any
GoVal(kind, v) == [kind |-> kind, v |-> v]
GoNil == GoVal("nil", 0)

\* the width of int64, uint64, int and uint, scaled down; math.MaxInt64 and
\* math.MaxUint64 at that width
IntBits == 4
MaxInt64 == 2 ^ (IntBits - 1) - 1
MaxUint64 == 2 ^ IntBits - 1

\* the conversion int64(val) of an unsigned val: the same bits, read as
\* two's complement
toInt64(val) ==
    LET bits == val % (2 ^ IntBits)
    IN IF bits > MaxInt64 THEN bits - 2 ^ IntBits ELSE bits

\* attribute.KeyValue
KeyValue(k, type, v) == [Key |-> k, Value |-> [type |-> type, v |-> v]]

\* the case of the type switch that one map entry takes: the attributes it
\* appends (none for nil and for a type that is not allowed)
AttrOfEntry(k, val) ==
    CASE val.kind = "nil" -> <<>>
      [] val.kind = "string" -> <<KeyValue(k, "STRING", val.v)>>
      [] val.kind = "bool" -> <<KeyValue(k, "BOOL", val.v)>>
      [] val.kind \in {"int", "int64"} -> <<KeyValue(k, "INT64", val.v)>>
      [] val.kind = "uint" -> <<KeyValue(k, "INT64", toInt64(val.v))>>
      [] val.kind = "uint64" ->
            IF val.v <= MaxInt64 THEN <<KeyValue(k, "INT64", toInt64(val.v))>>
            ELSE <<>>
      [] val.kind = "other" -> <<>>

\* the keys that the default case of the type switch reports with
\* stdLog.Printf, in the order of the iteration
RECURSIVE droppedKeys(_, _)
droppedKeys(attrMap, order) ==
    IF order = <<>> THEN <<>>
    ELSE (IF attrMap[Head(order)].kind = "other" THEN <<Head(order)>> ELSE <<>>)
             \o droppedKeys(attrMap, Tail(order))

\* mapToAttribute(attrMap): the entries are visited in the iteration order
\* `order` of the Go map (a sequence of its keys, each once)
RECURSIVE mapToAttribute(_, _)
mapToAttribute(attrMap, order) ==
    IF order = <<>> THEN <<>>
    ELSE AttrOfEntry(Head(order), attrMap[Head(order)])
             \o mapToAttribute(attrMap, Tail(order))

\* the iteration orders a Go map may take: every sequence of its keys
IterOrders(attrMap) ==
    LET D == DOMAIN attrMap
        n == Cardinality(D)
    IN {o \in [1..n -> D] : \A i, j \in 1..n : i # j => o[i] # o[j]}

\* attribute.Value.Emit()
Emit(value) ==
    CASE value.type = "STRING" -> value.v
      [] value.type = "BOOL" -> FormatBool(value.v)
      [] value.type = "INT64" -> FormatInt(value.v)

\* sort.Slice(attrs, less) with less = attrs[i].Key < attrs[j].Key.
\* The keys come from a Go map, so they are pairwise distinct and every
\* correct sort yields the same sequence; computed here by insertion.
RECURSIVE InsertByKey(_, _)
InsertByKey(kv, sorted) ==
    IF sorted = <<>> THEN <<kv>>
    ELSE IF StrLess(kv.Key, Head(sorted).Key) THEN <<kv>> \o sorted
    ELSE <<Head(sorted)>> \o InsertByKey(kv, Tail(sorted))

\* a hashAttrs that forgets to sort
NoSort(attrs) == attrs

RECURSIVE SortSlice(_)
SortSlice(attrs) ==
    IF attrs = <<>> THEN <<>>
    ELSE InsertByKey(Head(attrs), SortSlice(Tail(attrs)))

\* the strings.Builder loop of hashAttrs over the sorted slice
RECURSIVE WriteAttrs(_)
WriteAttrs(attrs) ==
    IF attrs = <<>> THEN <<>>
    ELSE Head(attrs).Key \o <<ChEq>> \o Emit(Head(attrs).Value) \o <<ChBar>>
             \o WriteAttrs(Tail(attrs))

\* hashAttrs(attrs): the fingerprint; the caller's slice is sorted in place
hashAttrs(attrs) == WriteAttrs(SortSlice(attrs))

\* the attribute set of a slice
AttrSet(attrs) == {attrs[i] : i \in 1..Len(attrs)}

(***************************************************************************)
(* State                                                                   *)
(***************************************************************************)
VARIABLES
    clock,        \* time.Now(), monotonic
    gauges,       \* metricCollectorManager.gauges: the registered names
    currentVals,  \* gaugeState.currentVals: fingerprint -> gaugeValue
    mu,           \* gaugeState.mu: [w: the writer holding it or "", r: the readers]
    pc,           \* the position of every goroutine
    rec,          \* locals of RecordGauge, per recorder
    col,          \* locals of the callback, per collector
    stdLog,       \* the diagnostics printed so far
    crashed,      \* the runtime stopped the process (fatal error)
    lastCall,     \* history: the last completed RecordGauge of each fingerprint
    fieldBy,      \* history: which call wrote each field of each series
    evicted,      \* history: fingerprint -> "evicted" | "rewritten", once evicted
    raceSeen,     \* history: the map was mutated during another's iteration
    evictMode,    \* history: the lock modes under which entries were deleted
    nstarted,     \* history: RecordGauge calls that found their gauge
    ncycles       \* history: collection cycles started

gaugeVars == <<clock, gauges, currentVals, mu, pc, rec, col, stdLog, crashed,
               lastCall, fieldBy, evicted, raceSeen, evictMode, nstarted, ncycles>>

histVars == <<lastCall, fieldBy, evicted, raceSeen, evictMode>>

VARIABLES
    hmap,     \* the map[string]any given to both calls
    horder,   \* the two iteration orders the runtime takes
    hkey,     \* the fingerprints computed so far, per call
    hattrs    \* the slices as hashAttrs leaves them, per call

hashVars == <<hmap, horder, hkey, hattrs>>

VARIABLES
    handlers,   \* multiHandler.handlers: the sinks, in order
    lpc,        \* the position of the logging call
    lrec,       \* the record being dispatched
    li,         \* the index of the loop of multiHandler.Handle
    lerr,       \* what multiHandler.Handle returned
    received,   \* per sink: the records its Handle was given
    nlogs       \* history: logging calls made

logVars == <<handlers, lpc, lrec, li, lerr, received, nlogs>>

VARIABLES
    spans,      \* the Spans created so far (wrapper and underlying span)
    carrier,    \* the TraceCarrier the caller holds, and where it came from
    extracted,  \* the context the caller got from ExtractContext, and from what
    nspanops,   \* history: calls made on Spans
    ncarrierops \* history: carriers exported and extracted

spanVars == <<spans, carrier, extracted, nspanops, ncarrierops>>

VARIABLES
    ocache,     \* Observer.cache: nil, or a redisCache with its channel
    redis,      \* the Redis server: key -> hash (field -> value)
    cacheCall,  \* the last call of the cache API and what it returned
    scenario    \* history: how far the calls so far follow scenario C

cacheVars == <<ocache, redis, cacheCall, scenario>>

VARIABLES
    bulkLoop,     \* BulkAsync_GetById: loop variable i, deferred calls, return
    bulkWorkers,  \* its goroutines: position and variable span
    bulkSpans,    \* the Spans created by BulkAsync_GetById and its goroutines
    bulkFaults    \* number of calls that failed (Redis commands, GetById)

bulkVars == <<bulkLoop, bulkWorkers, bulkSpans, bulkFaults>>

VARIABLES
    deleter,   \* a goroutine calling DeleteCacheTraceCarrierGroup: position, group
    readers    \* goroutines calling Get on the keys of that group, one at a time

raceVars == <<deleter, readers>>

VARIABLES
    observer,  \* which components were configured, and in which variant of the code
    mcm,       \* metricCollectorManager: the four maps from names to instruments
    sdk,       \* the instruments of the meter: kind, name, what was recorded
    apiCall,   \* the last call of the API, what it logged and returned
    proc       \* the process: running, exited (Fatalf) or panicked

observerVars == <<observer, mcm, sdk, apiCall, proc>>

VARIABLES
    shutdowns,  \* Observer.shutdowns: the sub-shutdowns in registration order
    sd          \* Observer.Shutdown: position, time, context, invocations made

shutdownVars == <<shutdowns, sd>>

VARIABLES
    logCalls   \* logging calls running at the same time, one per goroutine

logRaceVars == <<logCalls>>

VARIABLES
    codec      \* attribute maps given to RecordGauge and what became of them

codecVars == <<codec>>

VARIABLES
    singleton  \* observerOnce and what the calls of NewOtelObserver returned

onceVars == <<singleton>>

VARIABLES
    svc        \* the calls of ExampleService.GetById and CrossService_GetById

svcVars == <<svc>>

\* what the actions of one component leave alone
notGauge == <<hashVars, logVars, spanVars, cacheVars, bulkVars, raceVars, observerVars, shutdownVars, logRaceVars, codecVars, onceVars, svcVars>>
notHash == <<gaugeVars, logVars, spanVars, cacheVars, bulkVars, raceVars, observerVars, shutdownVars, logRaceVars, codecVars, onceVars, svcVars>>
notLog == <<gaugeVars, hashVars, spanVars, cacheVars, bulkVars, raceVars, observerVars, shutdownVars, logRaceVars, codecVars, onceVars, svcVars>>
notSpan == <<gaugeVars, hashVars, logVars, cacheVars, bulkVars, raceVars, observerVars, shutdownVars, logRaceVars, codecVars, onceVars, svcVars>>
notCache == <<gaugeVars, hashVars, logVars, spanVars, bulkVars, raceVars, observerVars, shutdownVars, logRaceVars, codecVars, onceVars, svcVars>>
notBulk == <<gaugeVars, hashVars, logVars, spanVars, ocache, cacheCall, scenario, raceVars, observerVars, shutdownVars, logRaceVars, codecVars, onceVars, svcVars>>
notRace == <<gaugeVars, hashVars, logVars, spanVars, ocache, cacheCall, scenario, bulkVars, observerVars, shutdownVars, logRaceVars, codecVars, onceVars, svcVars>>
notObserver == <<gaugeVars, hashVars, logVars, spanVars, cacheVars, bulkVars, raceVars, shutdownVars, logRaceVars, codecVars, onceVars, svcVars>>
notShutdown == <<gaugeVars, hashVars, logVars, spanVars, cacheVars, bulkVars, raceVars, observerVars, logRaceVars, codecVars, onceVars, svcVars>>
notLogRace == <<gaugeVars, hashVars, handlers, lpc, lrec, li, lerr, nlogs, spanVars, cacheVars, bulkVars, raceVars, observerVars, shutdownVars, codecVars, onceVars, svcVars>>
notCodec == <<gaugeVars, hashVars, logVars, spanVars, cacheVars, bulkVars, raceVars, observerVars, shutdownVars, logRaceVars, onceVars, svcVars>>
notOnce == <<gaugeVars, hashVars, logVars, spanVars, cacheVars, bulkVars, raceVars, observerVars, shutdownVars, logRaceVars, codecVars, svcVars>>
notSvc == <<gaugeVars, hashVars, logVars, spanVars, cacheVars, bulkVars, raceVars, observerVars, shutdownVars, logRaceVars, codecVars, onceVars>>

vars == <<gaugeVars, hashVars, logVars, spanVars, cacheVars, bulkVars, raceVars, observerVars, shutdownVars, logRaceVars, codecVars, onceVars, svcVars>>

(***************************************************************************)
(* Gauge engine: constants, inputs and the initial state                   *)
(***************************************************************************)
\* defaultGaugeMetricTTL, in clock ticks of 60 s (60000 ms)
defaultGaugeMetricTTL == 1

\* bounds of the model
MaxClock == 2
MaxCalls == 2
MaxCycles == 2

\* goroutines calling RecordGauge, and goroutines running the callback
Recorders == {"r1", "r2"}
Collectors == {"c1", "c2"}

\* names given to RecordGauge: the registered gauge and an unregistered one
GaugeName == "q_depth"
MetricNames == {GaugeName, "typo"}

\* gauge values and attribute maps given to RecordGauge
GaugeValues == {5, 9}
HostA == (StrHost :> GoVal("string", StrA))
HostB == (StrHost :> GoVal("string", StrB))
AttrMaps == {HostA, HostB}

\* the zero time.Time: older than the TTL at every instant
ZeroTime == 0 - (defaultGaugeMetricTTL + 1)

\* &gaugeValue{}
ZeroGaugeValue == [value |-> 0, attrs |-> <<>>, updatedAt |-> ZeroTime]

NoCall == [value |-> 0, attrs |-> 0, updatedAt |-> 0]

IdleRec == [name |-> "", value |-> 0, attrs |-> <<>>, key |-> <<>>, call |-> 0]
IdleCol == [now |-> 0, todo |-> {}, emitted |-> EmptyBag]

GaugeInit ==
    /\ clock = 0
    /\ gauges = {GaugeName}
    /\ currentVals = <<>>
    /\ mu = [w |-> "", r |-> {}]
    /\ pc = [t \in Recorders \cup Collectors |-> "idle"]
    /\ rec = [t \in Recorders |-> IdleRec]
    /\ col = [t \in Collectors |-> IdleCol]
    /\ stdLog = {}
    /\ crashed = FALSE
    /\ lastCall = <<>>
    /\ fieldBy = <<>>
    /\ evicted = <<>>
    /\ raceSeen = FALSE
    /\ evictMode = {}
    /\ nstarted = 0
    /\ ncycles = 0

\* sync.RWMutex: Lock waits for the writer and every reader to leave,
\* RLock waits for the writer only
LockIgnoringReaders(m) == m.w = ""
LockIgnoringWriter(m) == m.r = {}
CanLock(m) == m.w = "" /\ m.r = {}
CanRLock(m) == m.w = ""

\* the lock mode in which goroutine t holds gaugeState.mu
HeldMode(t) ==
    IF mu.w = t THEN "write" ELSE IF t \in mu.r THEN "read" ELSE "none"

\* another goroutine is inside a range loop over the map or between the
\* writes of an upsert
MapBusy(t) ==
    \/ \E c \in Collectors \ {t} : pc[c] \in {"evict", "emit"}
    \/ \E r \in Recorders \ {t} : pc[r] \in {"ensure", "value", "attrs", "updatedAt"}

(***************************************************************************)
(* Observer.RecordGauge(name, value, metricAttrs)                          *)
(***************************************************************************)
\* gaugeState, ok := gauges[name.Get()]; !ok: logged and dropped
RecordGaugeNotFound(t) ==
    /\ ~crashed /\ pc[t] = "idle"
    /\ \E name \in MetricNames : name \notin gauges
    /\ stdLog' = stdLog \cup {"Failed to record Gauge: Not found"}
    /\ UNCHANGED <<clock, gauges, currentVals, mu, pc, rec, col, crashed, nstarted, ncycles>>
    /\ UNCHANGED histVars
    /\ UNCHANGED notGauge

\* For a registered name: attrs := mapToAttribute(..) and
\* key := hashAttrs(attrs) (which leaves attrs sorted) touch nothing shared
\* and are taken together with gaugeState.mu.Lock().
RecordGaugeLock(t) ==
    /\ ~crashed /\ pc[t] = "idle" /\ nstarted < MaxCalls
    /\ CanLock(mu)
    /\ \E name \in MetricNames \cap gauges, value \in GaugeValues, m \in AttrMaps :
         \E order \in IterOrders(m) :
           LET attrs == mapToAttribute(m, order) IN
           rec' = [rec EXCEPT ![t] = [name |-> name, value |-> value,
                                      attrs |-> SortSlice(attrs),
                                      key |-> hashAttrs(attrs),
                                      call |-> nstarted + 1]]
    /\ mu' = [mu EXCEPT !.w = t]
    /\ pc' = [pc EXCEPT ![t] = "ensure"]
    /\ nstarted' = nstarted + 1
    /\ UNCHANGED <<clock, gauges, currentVals, col, stdLog, crashed, ncycles>>
    /\ UNCHANGED histVars
    /\ UNCHANGED notGauge

\* if _, ok := currentVals[key]; !ok { currentVals[key] = &gaugeValue{} }
RecordGaugeEnsure(t) ==
    /\ ~crashed /\ pc[t] = "ensure"
    /\ LET key == rec[t].key IN
       IF key \in DOMAIN currentVals
       THEN UNCHANGED <<currentVals, fieldBy, evicted, raceSeen>>
       ELSE /\ currentVals' = (key :> ZeroGaugeValue) @@ currentVals
            /\ fieldBy' = (key :> NoCall) @@ fieldBy
            /\ evicted' = [k \in DOMAIN evicted |->
                              IF k = key THEN "rewritten" ELSE evicted[k]]
            /\ raceSeen' = (raceSeen \/ MapBusy(t))
    /\ pc' = [pc EXCEPT ![t] = "value"]
    /\ UNCHANGED <<clock, gauges, mu, rec, col, stdLog, crashed, nstarted, ncycles>>
    /\ UNCHANGED <<lastCall, evictMode>>
    /\ UNCHANGED notGauge

\* currentVals[key].value = value
RecordGaugeSetValue(t) ==
    /\ ~crashed /\ pc[t] = "value"
    /\ currentVals' = [currentVals EXCEPT ![rec[t].key].value = rec[t].value]
    /\ fieldBy' = [fieldBy EXCEPT ![rec[t].key].value = rec[t].call]
    /\ pc' = [pc EXCEPT ![t] = "attrs"]
    /\ UNCHANGED <<clock, gauges, mu, rec, col, stdLog, crashed, nstarted, ncycles>>
    /\ UNCHANGED <<lastCall, evicted, raceSeen, evictMode>>
    /\ UNCHANGED notGauge

\* currentVals[key].attrs = attrs
RecordGaugeSetAttrs(t) ==
    /\ ~crashed /\ pc[t] = "attrs"
    /\ currentVals' = [currentVals EXCEPT ![rec[t].key].attrs = rec[t].attrs]
    /\ fieldBy' = [fieldBy EXCEPT ![rec[t].key].attrs = rec[t].call]
    /\ pc' = [pc EXCEPT ![t] = "updatedAt"]
    /\ UNCHANGED <<clock, gauges, mu, rec, col, stdLog, crashed, nstarted, ncycles>>
    /\ UNCHANGED <<lastCall, evicted, raceSeen, evictMode>>
    /\ UNCHANGED notGauge

\* currentVals[key].updatedAt = time.Now()
RecordGaugeSetUpdatedAt(t) ==
    /\ ~crashed /\ pc[t] = "updatedAt"
    /\ currentVals' = [currentVals EXCEPT ![rec[t].key].updatedAt = clock]
    /\ fieldBy' = [fieldBy EXCEPT ![rec[t].key].updatedAt = rec[t].call]
    /\ lastCall' = (rec[t].key :> [value |-> rec[t].value,
                                   attrs |-> AttrSet(rec[t].attrs),
                                   at |-> clock, call |-> rec[t].call]) @@ lastCall
    /\ pc' = [pc EXCEPT ![t] = "unlock"]
    /\ UNCHANGED <<clock, gauges, mu, rec, col, stdLog, crashed, nstarted, ncycles>>
    /\ UNCHANGED <<evicted, raceSeen, evictMode>>
    /\ UNCHANGED notGauge

\* the deferred gaugeState.mu.Unlock()
RecordGaugeUnlock(t) ==
    /\ ~crashed /\ pc[t] = "unlock"
    /\ mu' = [mu EXCEPT !.w = ""]
    /\ pc' = [pc EXCEPT ![t] = "idle"]
    /\ rec' = [rec EXCEPT ![t] = IdleRec]
    /\ UNCHANGED <<clock, gauges, currentVals, col, stdLog, crashed, nstarted, ncycles>>
    /\ UNCHANGED histVars
    /\ UNCHANGED notGauge

(***************************************************************************)
(* The callback registered by registerGauge (one collection cycle)         *)
(***************************************************************************)
\* delete(gaugeState.currentVals, key)
KeepEntry(vals, key) == vals
DeleteEntry(vals, key) == [k \in DOMAIN vals \ {key} |-> vals[k]]

\* now.Sub(gaugeValue.updatedAt) > defaultGaugeMetricTTL
ExpiredAtTTL(now, gv) == now - gv.updatedAt >= defaultGaugeMetricTTL
ExpiredReversed(now, gv) == gv.updatedAt - now > defaultGaugeMetricTTL
Expired(now, gv) == now - gv.updatedAt > defaultGaugeMetricTTL

\* gaugeState.mu.RLock(); now := time.Now(); the first range loop begins
CollectRLock(t) ==
    /\ ~crashed /\ pc[t] = "idle" /\ ncycles < MaxCycles
    /\ CanRLock(mu)
    /\ mu' = [mu EXCEPT !.r = @ \cup {t}]
    /\ col' = [col EXCEPT ![t] = [now |-> clock, todo |-> DOMAIN currentVals,
                                  emitted |-> EmptyBag]]
    /\ pc' = [pc EXCEPT ![t] = "evict"]
    /\ ncycles' = ncycles + 1
    /\ UNCHANGED <<clock, gauges, currentVals, rec, stdLog, crashed, nstarted>>
    /\ UNCHANGED histVars
    /\ UNCHANGED notGauge

\* one iteration of the first loop: an entry not yet reached and still in
\* the map is produced; it is deleted when older than the TTL.  A delete
\* during another goroutine's iteration is a data race on the map: the
\* runtime either stops the process or lets the delete through.
CollectEvict(t) ==
    /\ ~crashed /\ pc[t] = "evict"
    /\ \E key \in col[t].todo \cap DOMAIN currentVals :
         /\ col' = [col EXCEPT ![t].todo = @ \ {key}]
         /\ IF Expired(col[t].now, currentVals[key])
            THEN /\ evictMode' = evictMode \cup {HeldMode(t)}
                 /\ raceSeen' = (raceSeen \/ MapBusy(t))
                 /\ \/ /\ currentVals' = DeleteEntry(currentVals, key)
                       /\ evicted' = (key :> "evicted") @@ evicted
                       /\ UNCHANGED crashed
                    \/ /\ MapBusy(t)
                       /\ crashed' = TRUE
                       /\ UNCHANGED <<currentVals, evicted>>
            ELSE UNCHANGED <<currentVals, crashed, evicted, raceSeen, evictMode>>
    /\ UNCHANGED <<clock, gauges, mu, pc, rec, stdLog, nstarted, ncycles>>
    /\ UNCHANGED <<lastCall, fieldBy>>
    /\ UNCHANGED notGauge

\* the first loop ends; the second range loop begins
CollectEvictDone(t) ==
    /\ ~crashed /\ pc[t] = "evict"
    /\ col[t].todo \cap DOMAIN currentVals = {}
    /\ col' = [col EXCEPT ![t].todo = DOMAIN currentVals]
    /\ pc' = [pc EXCEPT ![t] = "emit"]
    /\ UNCHANGED <<clock, gauges, currentVals, mu, rec, stdLog, crashed, nstarted, ncycles>>
    /\ UNCHANGED histVars
    /\ UNCHANGED notGauge

\* one iteration of the second loop: o.ObserveFloat64(instrument, value, attrs)
CollectEmit(t) ==
    /\ ~crashed /\ pc[t] = "emit"
    /\ \E key \in col[t].todo \cap DOMAIN currentVals :
         LET gv == currentVals[key]
             obs == [key |-> key, value |-> gv.value, attrs |-> gv.attrs,
                     by |-> fieldBy[key],
                     after |-> IF key \in DOMAIN evicted THEN evicted[key] ELSE "written"]
         IN col' = [col EXCEPT ![t].todo = @ \ {key},
                               ![t].emitted = @ (+) SetToBag({obs})]
    /\ UNCHANGED <<clock, gauges, currentVals, mu, pc, rec, stdLog, crashed, nstarted, ncycles>>
    /\ UNCHANGED histVars
    /\ UNCHANGED notGauge

\* the second loop ends; return nil
CollectEmitDone(t) ==
    /\ ~crashed /\ pc[t] = "emit"
    /\ col[t].todo \cap DOMAIN currentVals = {}
    /\ pc' = [pc EXCEPT ![t] = "runlock"]
    /\ UNCHANGED <<clock, gauges, currentVals, mu, rec, col, stdLog, crashed, nstarted, ncycles>>
    /\ UNCHANGED histVars
    /\ UNCHANGED notGauge

\* the deferred gaugeState.mu.RUnlock()
CollectRUnlock(t) ==
    /\ ~crashed /\ pc[t] = "runlock"
    /\ mu' = [mu EXCEPT !.r = @ \ {t}]
    /\ pc' = [pc EXCEPT ![t] = "idle"]
    /\ col' = [col EXCEPT ![t] = IdleCol]
    /\ UNCHANGED <<clock, gauges, currentVals, rec, stdLog, crashed, nstarted, ncycles>>
    /\ UNCHANGED histVars
    /\ UNCHANGED notGauge

\* time passes
Tick ==
    /\ ~crashed /\ clock < MaxClock
    /\ clock' = clock + 1
    /\ UNCHANGED <<gauges, currentVals, mu, pc, rec, col, stdLog, crashed, nstarted, ncycles>>
    /\ UNCHANGED histVars
    /\ UNCHANGED notGauge

(***************************************************************************)
(* The gauge engine under concurrent recorders and collection cycles       *)
(***************************************************************************)
GaugeNext ==
    \/ \E t \in Recorders : RecordGaugeNotFound(t)
    \/ \E t \in Recorders : RecordGaugeLock(t)
    \/ \E t \in Recorders : RecordGaugeEnsure(t)
    \/ \E t \in Recorders : RecordGaugeSetValue(t)
    \/ \E t \in Recorders : RecordGaugeSetAttrs(t)
    \/ \E t \in Recorders : RecordGaugeSetUpdatedAt(t)
    \/ \E t \in Recorders : RecordGaugeUnlock(t)
    \/ \E t \in Collectors : CollectRLock(t)
    \/ \E t \in Collectors : CollectEvict(t)
    \/ \E t \in Collectors : CollectEvictDone(t)
    \/ \E t \in Collectors : CollectEmit(t)
    \/ \E t \in Collectors : CollectEmitDone(t)
    \/ \E t \in Collectors : CollectRUnlock(t)
    \/ Tick

(***************************************************************************)
(* hashAttrs as a function: one attribute map, visited in two orders       *)
(***************************************************************************)
\* bound of the attribute maps given to hashAttrs
MaxAttrs == 3

HashKeys == {StrHost, StrZone, StrA, StrB}
HashVals == {GoVal("string", StrA), GoVal("int64", 7), GoVal("bool", TRUE), GoNil}
HashMaps ==
    UNION {[D -> HashVals] : D \in {E \in SUBSET HashKeys : Cardinality(E) <= MaxAttrs}}

HashInit ==
    /\ hmap \in HashMaps
    /\ horder \in [{1, 2} -> IterOrders(hmap)]
    /\ hkey = <<>>
    /\ hattrs = <<>>

HashIdle ==
    /\ hmap = <<>>
    /\ horder = <<>>
    /\ hkey = <<>>
    /\ hattrs = <<>>

\* key := hashAttrs(mapToAttribute(metricAttrs)), for the i-th call
HashCall(i) ==
    /\ i \notin DOMAIN hkey
    /\ LET attrs == mapToAttribute(hmap, horder[i]) IN
       /\ hkey' = (i :> hashAttrs(attrs)) @@ hkey
       /\ hattrs' = (i :> SortSlice(attrs)) @@ hattrs
    /\ UNCHANGED <<hmap, horder>>
    /\ UNCHANGED notHash

HashNext ==
    \/ HashCall(1)
    \/ HashCall(2)


(***************************************************************************)
(* Log dispatcher: logWithMeta -> slog.Logger.LogAttrs -> multiHandler     *)
(***************************************************************************)
\* slog.LevelDebug, LevelInfo, LevelWarn, LevelError
LevelDebug == 0 - 4
LevelInfo == 0
LevelWarn == 4
LevelError == 8
Levels == {LevelDebug, LevelInfo, LevelWarn, LevelError}

\* bound of the logging calls of one run
MaxLogs == 2

\* the sinks newMultiHandler is given, in order.  A sink is a slog.Handler:
\* its Enabled compares the level with the sink's minimum level, and its
\* Handle writes the record it is given (slog leaves the level check to the
\* caller of Handle) and may fail.
SinkIds == {1, 2}
Sink(min, fails) == [min |-> min, fails |-> fails]
SinkConfigs == [SinkIds -> {Sink(l, f) : l \in Levels, f \in BOOLEAN}]

\* handler.Enabled(ctx, level) of one sink
SinkEnabled(sink, level) == level >= sink.min

\* the contexts given to the logging calls: without a span, or carrying a
\* valid span
Contexts == {"background", "span1", "span2"}

\* getTraceInfo(ctx): the ids of the span of ctx, or empty strings
getTraceInfo(ctx) ==
    IF ctx = "background"
    THEN [trace_id |-> "", span_id |-> ""]
    ELSE [trace_id |-> "trace-of-" \o ctx, span_id |-> "span-of-" \o ctx]

NoRecord == [id |-> 0, level |-> LevelInfo, trace_id |-> "", span_id |-> ""]

LogInit ==
    /\ handlers \in SinkConfigs
    /\ lpc = "idle"
    /\ lrec = NoRecord
    /\ li = 0
    /\ lerr = "nil"
    /\ received = [i \in SinkIds |-> <<>>]
    /\ nlogs = 0

LogIdle ==
    /\ handlers = <<>>
    /\ lpc = "idle"
    /\ lrec = NoRecord
    /\ li = 0
    /\ lerr = "nil"
    /\ received = <<>>
    /\ nlogs = 0

\* multiHandler.Enabled: true if any handler is enabled for the level
Enabled(hs, level) == \E i \in DOMAIN hs : SinkEnabled(hs[i], level)

\* logWithMeta(ctx, level, ..): o.logger.LogAttrs returns at once when the
\* handler is not enabled for the level, and calls multiHandler.Handle
\* otherwise, which clones the record and adds the trace ids of ctx to it
LogWithMeta(ctx, level) ==
    /\ lpc \in {"idle", "returned"} /\ nlogs < MaxLogs
    /\ nlogs' = nlogs + 1
    /\ lerr' = "nil"
    /\ IF Enabled(handlers, level)
       THEN /\ lpc' = "handle" /\ li' = 1
            /\ lrec' = [id |-> nlogs + 1, level |-> level,
                        trace_id |-> getTraceInfo(ctx).trace_id,
                        span_id |-> getTraceInfo(ctx).span_id]
       ELSE /\ lpc' = "returned" /\ li' = 0
            /\ lrec' = [id |-> nlogs + 1, level |-> level,
                        trace_id |-> "", span_id |-> ""]
    /\ UNCHANGED <<handlers, received>>
    /\ UNCHANGED notLog

\* what the loop does with the error of handler.Handle
StopOnError(err) == err # "nil"

\* one iteration of the loop of multiHandler.Handle:
\* if err := handler.Handle(ctx, r); err != nil { return err }
HandleDispatch ==
    /\ lpc = "handle" /\ li \in DOMAIN handlers
    /\ received' = [received EXCEPT ![li] = Append(@, lrec)]
    /\ LET err == IF handlers[li].fails THEN "write failed" ELSE "nil" IN
       IF StopOnError(err)
       THEN /\ lerr' = err
            /\ lpc' = "returned"
            /\ UNCHANGED li
       ELSE /\ li' = li + 1
            /\ UNCHANGED <<lerr, lpc>>
    /\ UNCHANGED <<handlers, lrec, nlogs>>
    /\ UNCHANGED notLog

\* the loop is over: return nil
HandleReturn ==
    /\ lpc = "handle" /\ li \notin DOMAIN handlers
    /\ lpc' = "returned"
    /\ UNCHANGED <<handlers, lrec, li, lerr, received, nlogs>>
    /\ UNCHANGED notLog

LogNext ==
    \/ \E ctx \in Contexts, level \in Levels : LogWithMeta(ctx, level)
    \/ HandleDispatch
    \/ HandleReturn

(***************************************************************************)
(* Spans and trace carriers: NewSpan, Span, TraceCarrier                   *)
(***************************************************************************)
\* bounds: the Spans created and the calls made on them
MaxSpans == 2
MaxSpanOps == 4
MaxCarrierOps == 3

\* trace.SpanContext: trace id, span id, flags, tracestate, remote
SpanContext(tid, sid, flags, ts, remote) ==
    [tid |-> tid, sid |-> sid, flags |-> flags, ts |-> ts, remote |-> remote]
NoSpanContext == SpanContext(0, 0, 0, "", FALSE)
IsValid(sc) == sc.tid # 0 /\ sc.sid # 0

\* context.Context: the span context and the baggage it holds
Context(sc, bag) == [sc |-> sc, bag |-> bag]
Background == Context(NoSpanContext, "")

\* the ids the tracer's generator hands out: never zero, never repeated
NewTraceID(n) == 200 + n
NewSpanID(n) == 100 + n

\* the underlying span (trace.Span of the SDK) that tracer.Start returns.
\* The default sampler follows the parent's sampled flag and samples roots;
\* a span that is not sampled records nothing.
tracerStart(ctx, n) ==
    LET psc == ctx.sc
        sampled == IF IsValid(psc) THEN psc.flags % 2 = 1 ELSE TRUE
        sc == SpanContext(IF IsValid(psc) THEN psc.tid ELSE NewTraceID(n),
                          NewSpanID(n),
                          IF sampled THEN 1 ELSE 0,
                          IF IsValid(psc) THEN psc.ts ELSE "",
                          FALSE)
    IN [sc |-> sc,
        parent |-> IF IsValid(psc) THEN psc.sid ELSE 0,
        recording |-> sampled,
        ended |-> FALSE,
        attributes |-> <<>>,
        events |-> <<>>,
        status |-> [Code |-> "Unset", Description |-> ""]]

\* the methods of the underlying span: each is ignored once the span has
\* ended or when it records nothing
RecordsAfterEnd(core) == core.recording
IsRecording(core) == core.recording /\ ~core.ended

RECURSIVE coreSetAttributes(_, _)
coreSetAttributes(core, attrs) ==
    IF ~IsRecording(core) \/ attrs = <<>> THEN core
    ELSE coreSetAttributes(
             [core EXCEPT !.attributes = (Head(attrs).Key :> Head(attrs).Value) @@ @],
             Tail(attrs))

coreRecordError(core, err) ==
    IF err = "nil" \/ ~IsRecording(core) THEN core
    ELSE [core EXCEPT !.events = Append(@, [name |-> "exception", message |-> err])]

StatusRank(code) == CASE code = "Unset" -> 0 [] code = "Error" -> 1 [] code = "Ok" -> 2

coreSetStatus(core, code, description) ==
    IF ~IsRecording(core) \/ StatusRank(core.status.Code) > StatusRank(code) THEN core
    ELSE [core EXCEPT !.status =
              [Code |-> code,
               Description |-> IF code = "Error" THEN description ELSE ""]]

coreAddEvent(core, name, attrs) ==
    IF ~IsRecording(core) THEN core
    ELSE [core EXCEPT !.events = Append(@, [name |-> name, attrs |-> AttrSet(attrs)])]

coreEnd(core) ==
    IF ~IsRecording(core) THEN core ELSE [core EXCEPT !.ended = TRUE]

\* the inputs of the calls on Spans
SpanKeys == {StrX, StrA}
SpanVals == {GoVal("int", 1), GoVal("string", StrB), GoNil, GoVal("other", 0)}
SpanErrs == {"nil", "boom"}
EventAttrs == {<<>>, (StrX :> GoVal("int", 1))}

\* nothing committed yet
NotCommitted == [committed |-> FALSE]

SpanInit ==
    /\ spans = <<>>
    /\ carrier = [c |-> <<>>, ctx |-> Background, from |-> "none", of |-> <<>>]
    /\ extracted = [ctx |-> Background, from |-> <<>>, done |-> FALSE]
    /\ nspanops = 0
    /\ ncarrierops = 0

SpanIdle == SpanInit

\* the contexts a caller can hold: the background, the contexts of its
\* Spans, an extracted context
CallerContexts ==
    {Background}
        \cup {spans[i].spanCtx : i \in DOMAIN spans}
        \cup {spans[i].parentCtx : i \in DOMAIN spans}
        \cup (IF extracted.done THEN {extracted.ctx} ELSE {})

\* the revisions of the Span type: the Observer's (otel_span.go) and the
\* package-level one (part_017)
SpanRevisions == {"observer", "package"}

\* span.ParentContext(): the Observer's revision returns span.parentCtx,
\* the package-level revision returns span.spanCtx
ParentContext(revision, span) ==
    IF revision = "package" THEN span.spanCtx ELSE span.parentCtx

\* span.Context()
SpanCtx(span) == span.spanCtx

\* history: the calls made on a Span before its first Done
Called(span, call) == IF span.dones = 0 THEN Append(span.ops, call) ELSE span.ops

\* NewSpan(ctx, operation)
NewSpan(ctx) ==
    /\ Len(spans) < MaxSpans
    /\ LET n == Len(spans) + 1
           coreSpan == tracerStart(ctx, n)
       IN spans' = Append(spans,
              [coreSpan |-> coreSpan,
               parentCtx |-> ctx,
               spanCtx |-> Context(coreSpan.sc, ctx.bag),
               err |-> "nil",
               spanAttributes |-> <<>>,
               sets |-> <<>>,
               ops |-> <<>>,
               dones |-> 0,
               first |-> NotCommitted,
               endedThen |-> {i \in DOMAIN spans : spans[i].dones > 0}])
    /\ UNCHANGED <<carrier, extracted, nspanops, ncarrierops>>
    /\ UNCHANGED notSpan

\* span.SetAttribute(key, value)
SetAttribute(i, key, value) ==
    /\ nspanops < MaxSpanOps
    /\ nspanops' = nspanops + 1
    /\ spans' = [spans EXCEPT ![i].spanAttributes = (key :> value) @@ @,
                              ![i].sets = Append(@, <<key, value>>),
                              ![i].ops = Called(spans[i], [op |-> "SetAttribute"])]
    /\ UNCHANGED <<carrier, extracted, ncarrierops>>
    /\ UNCHANGED notSpan

\* a SetError that ends the underlying span with the error
SetErrorEnds(i, err) ==
    /\ nspanops < MaxSpanOps
    /\ nspanops' = nspanops + 1
    /\ spans' = [spans EXCEPT
          ![i].err = err,
          ![i].coreSpan = coreEnd(coreSetStatus(@, "Error", err)),
          ![i].ops = Called(spans[i], [op |-> "SetError", err |-> err])]
    /\ UNCHANGED <<carrier, extracted, ncarrierops>>
    /\ UNCHANGED notSpan

\* span.SetError(err)
SetError(i, err) ==
    /\ nspanops < MaxSpanOps
    /\ nspanops' = nspanops + 1
    /\ spans' = [spans EXCEPT
          ![i].err = err,
          ![i].ops = Called(spans[i], [op |-> "SetError", err |-> err])]
    /\ UNCHANGED <<carrier, extracted, ncarrierops>>
    /\ UNCHANGED notSpan

\* span.AddEvent(eventName, eventAttributes)
AddEvent(i, eventAttributes) ==
    /\ nspanops < MaxSpanOps
    /\ nspanops' = nspanops + 1
    /\ \E order \in IterOrders(eventAttributes) :
         LET attrs == mapToAttribute(eventAttributes, order) IN
         spans' = [spans EXCEPT
             ![i].coreSpan = coreAddEvent(@, "cache.hit", attrs),
             ![i].ops = Called(spans[i], [op |-> "AddEvent"])]
    /\ UNCHANGED <<carrier, extracted, ncarrierops>>
    /\ UNCHANGED notSpan

\* a Done that takes the error branch when no error is pending
doneCoreInverted(core, attrs, err) ==
    LET c1 == coreSetAttributes(core, attrs) IN
    IF err = "nil"
    THEN coreEnd(coreSetStatus(coreRecordError(c1, err), "Error", err))
    ELSE coreEnd(coreSetStatus(c1, "Ok", "success"))

\* what Done makes of the underlying span
doneCore(core, attrs, err) ==
    LET c1 == coreSetAttributes(core, attrs) IN
    IF err # "nil"
    THEN coreEnd(coreSetStatus(coreRecordError(c1, err), "Error", err))
    ELSE coreEnd(coreSetStatus(c1, "Ok", "success"))

\* span.Done()
Done(i) ==
    /\ nspanops < MaxSpanOps
    /\ nspanops' = nspanops + 1
    /\ \E order \in IterOrders(spans[i].spanAttributes) :
         LET attrs == mapToAttribute(spans[i].spanAttributes, order)
             core == doneCore(spans[i].coreSpan, attrs, spans[i].err)
         IN spans' = [spans EXCEPT
                ![i].coreSpan = core,
                ![i].dones = @ + 1,
                ![i].first = IF spans[i].dones = 0
                             THEN [committed |-> TRUE, coreSpan |-> core,
                                   err |-> spans[i].err,
                                   spanAttributes |-> spans[i].spanAttributes,
                                   sets |-> spans[i].sets,
                                   applied |-> AttrSet(attrs)]
                             ELSE @]
    /\ UNCHANGED <<carrier, extracted, ncarrierops>>
    /\ UNCHANGED notSpan

\* TraceCarrier: a map from field names to strings.  The value of the
\* "traceparent" field is kept as its four parts <<version, trace id,
\* span id, flags>>; <<>> is a value that does not have this form.
FormatTraceparent(sc) == <<0, sc.tid, sc.sid, sc.flags % 2>>

\* the parse of a traceparent value by the propagator: version 255 is
\* refused, and version 0 admits no flags above 2
ParsesTraceparent(h) ==
    /\ Len(h) = 4
    /\ h[1] < 255
    /\ h[1] = 0 => h[4] <= 2

\* a propagator that writes a traceparent for every context
InjectAlways(ctx) ==
    ("traceparent" :> FormatTraceparent(ctx.sc))
        @@ (IF ctx.bag # "" THEN ("baggage" :> ctx.bag) ELSE <<>>)

\* a propagator that forgets the tracestate
InjectNoState(ctx) ==
    (IF IsValid(ctx.sc) THEN ("traceparent" :> FormatTraceparent(ctx.sc)) ELSE <<>>)
        @@ (IF ctx.bag # "" THEN ("baggage" :> ctx.bag) ELSE <<>>)

\* what the propagator set in initTracer (TraceContext, then Baggage)
\* writes for a context
Inject(ctx) ==
    (IF IsValid(ctx.sc)
     THEN ("traceparent" :> FormatTraceparent(ctx.sc))
              @@ (IF ctx.sc.ts # "" THEN ("tracestate" :> ctx.sc.ts) ELSE <<>>)
     ELSE <<>>)
    @@ (IF ctx.bag # "" THEN ("baggage" :> ctx.bag) ELSE <<>>)

\* a baggage or tracestate value the parsers accept
WellFormedList(v) == v # "bad"

\* an extraction that drops the trace identity
ExtractNothing(c) == Background

\* what it reads from a carrier into context.Background()
Extract(c) ==
    LET h == IF "traceparent" \in DOMAIN c THEN c["traceparent"] ELSE <<>>
        ts == IF "tracestate" \in DOMAIN c /\ WellFormedList(c["tracestate"])
              THEN c["tracestate"] ELSE ""
        sc == IF ParsesTraceparent(h)
              THEN SpanContext(h[2], h[3], h[4] % 2, ts, TRUE)
              ELSE NoSpanContext
        bag == IF "baggage" \in DOMAIN c /\ WellFormedList(c["baggage"])
               THEN c["baggage"] ELSE ""
    IN Context(IF IsValid(sc) THEN sc ELSE NoSpanContext, bag)

\* IsZero(): len(traceCarrier) == 0 (nil or empty)
IsZero(c) == DOMAIN c = {}

\* the carriers a caller may hold that no export of this process made
InputCarriers ==
    {<<>>,
     ("traceparent" :> <<0, 7, 9, 1>>) @@ ("tracestate" :> "v=1") @@ ("baggage" :> "k=v"),
     ("traceparent" :> <<0, 7, 9, 0>>),
     ("traceparent" :> <<>>),
     ("traceparent" :> <<1, 7, 9, 1>>),
     ("x-request-id" :> "r1")}

\* ExportTraceCarrier(ctx)
ExportTraceCarrier(ctx) ==
    /\ ncarrierops < MaxCarrierOps
    /\ ncarrierops' = ncarrierops + 1
    /\ carrier' = [c |-> Inject(ctx),
                   ctx |-> ctx,
                   from |-> IF extracted.done /\ ctx = extracted.ctx
                            THEN "extracted" ELSE "context",
                   of |-> IF extracted.done /\ ctx = extracted.ctx
                          THEN extracted.from ELSE <<>>]
    /\ UNCHANGED <<spans, extracted, nspanops>>
    /\ UNCHANGED notSpan

\* traceCarrier.ExtractContext()
ExtractContext(c) ==
    /\ ncarrierops < MaxCarrierOps
    /\ ncarrierops' = ncarrierops + 1
    /\ extracted' = [ctx |-> Extract(c), from |-> c, done |-> TRUE]
    /\ UNCHANGED <<spans, carrier, nspanops>>
    /\ UNCHANGED notSpan

SpanNext ==
    \/ \E ctx \in CallerContexts : NewSpan(ctx)
    \/ \E i \in DOMAIN spans, key \in SpanKeys, value \in SpanVals : SetAttribute(i, key, value)
    \/ \E i \in DOMAIN spans, err \in SpanErrs : SetError(i, err)
    \/ \E i \in DOMAIN spans, attrs \in EventAttrs : AddEvent(i, attrs)
    \/ \E i \in DOMAIN spans : Done(i)

\* scenario A and its variations: Spans that get the attribute x = 1 and are
\* committed, carriers exported from and extracted into the caller's contexts
CarrierNext ==
    \/ \E ctx \in CallerContexts : NewSpan(ctx)
    \/ \E i \in DOMAIN spans : SetAttribute(i, StrX, GoVal("int", 1))
    \/ \E i \in DOMAIN spans : Done(i)
    \/ \E ctx \in CallerContexts : ExportTraceCarrier(ctx)
    \/ \E c \in InputCarriers \cup {carrier.c} : ExtractContext(c)


(***************************************************************************)
(* Correlation cache: redisCache and the Observer's cache API.  Names and  *)
(* Redis keys are sequences of pieces, so that keys are built by           *)
(* concatenation and matched by prefix as the code does.                   *)
(***************************************************************************)
\* traceCarrierRedisCacheKey = "OTEL:TRACECARRIER"
traceCarrierRedisCacheKey == <<"OTEL", ":", "TRACECARRIER">>

\* ErrCacheUnconfigured
ErrCacheUnconfigured == "cache is unconfigured"

\* the channel of the configured cache, the groups and keys of the calls
CacheChannel == <<"svc">>
Groups == {<<"batch", "1">>, <<"batch", "2">>}
CacheKeys == {<<"item", "1">>, <<"item", "2">>}

\* the carriers given to Set
CarrierC == ("traceparent" :> <<0, 7, 9, 1>>)
CarrierD == ("traceparent" :> <<0, 7, 9, 0>>) @@ ("tracestate" :> "v=1")
SetCarriers == {CarrierC, CarrierD, <<>>}

\* getChannelKey(), getGroupKey(group)
getChannelKey(rCache) == traceCarrierRedisCacheKey \o <<":">> \o rCache.channel
getGroupKey(rCache, group) == getChannelKey(rCache) \o <<":">> \o group

\* json.Marshal of a map[string]string; json.Unmarshal into a TraceCarrier,
\* and an Unmarshal that loses the members
jsonMarshal(c) == [json |-> "object", members |-> {<<k, c[k]>> : k \in DOMAIN c}]
jsonUnmarshalLossy(raw) == [err |-> "nil", carrier |-> <<>>]
jsonUnmarshal(raw) ==
    IF raw.json = "object"
    THEN [err |-> "nil",
          carrier |-> [k \in {m[1] : m \in raw.members} |->
                          (CHOOSE m \in raw.members : m[1] = k)[2]]]
    ELSE [err |-> "json", carrier |-> <<>>]

\* the Redis commands used, on a server that answers
HGet(db, rkey, field) ==
    IF rkey \in DOMAIN db /\ field \in DOMAIN db[rkey]
    THEN [err |-> "nil", val |-> db[rkey][field]]
    ELSE [err |-> "redis.Nil", val |-> ""]
HSetNX(db, rkey, field, val) ==
    IF rkey \in DOMAIN db /\ field \in DOMAIN db[rkey] THEN db
    ELSE IF rkey \in DOMAIN db THEN [db EXCEPT ![rkey] = (field :> val) @@ @]
    ELSE (rkey :> (field :> val)) @@ db
HSet(db, rkey, field, val) ==
    IF rkey \in DOMAIN db
    THEN [db EXCEPT ![rkey] = (field :> val) @@ @]
    ELSE (rkey :> (field :> val)) @@ db
DelKeys(db, rkeys) == [k \in DOMAIN db \ rkeys |-> db[k]]
HDel(db, rkey, field) ==
    IF rkey \notin DOMAIN db THEN db
    ELSE IF DOMAIN db[rkey] \subseteq {field} THEN DelKeys(db, {rkey})
    ELSE [db EXCEPT ![rkey] = [f \in DOMAIN db[rkey] \ {field} |-> db[rkey][f]]]

\* SCAN with the pattern `prefix*`: the keys that begin with the prefix
HasPrefix(rkey, prefix) ==
    Len(rkey) >= Len(prefix) /\ SubSeq(rkey, 1, Len(prefix)) = prefix
Scan(db, prefix) == {k \in DOMAIN db : HasPrefix(k, prefix)}

\* whether the server answers a command
BackendOutcomes == {"ok", "io error"}

\* what the server may hold when the process starts: nothing, or an entry
\* an earlier run left behind
InitialStores ==
    {<<>>,
     (traceCarrierRedisCacheKey \o <<":">> \o CacheChannel \o <<":", "batch", "2">>)
         :> (<<"item", "1">> :> jsonMarshal(CarrierD))}

\* other channels that use the same server: one whose name begins with the
\* name of this channel ("svc2"), one that does not ("web")
OtherChannels == {<<"svc", "2">>, <<"web">>}

\* the Redis keys of the groups of a channel
ChannelKeys(channel) == {getGroupKey([channel |-> channel], g) : g \in Groups}

\* a server shared by several channels: each of them may hold one group
SharedStores ==
    LET entry == (<<"item", "1">> :> jsonMarshal(CarrierC))
        rkeys == {getGroupKey([channel |-> ch], <<"batch", "1">>) :
                     ch \in OtherChannels \cup {CacheChannel}}
    IN {[k \in K |-> entry] : K \in SUBSET rkeys}

NoCacheCall == [op |-> "none"]
CacheInit ==
    /\ ocache \in {[configured |-> FALSE, channel |-> <<>>],
                   [configured |-> TRUE, channel |-> CacheChannel]}
    /\ redis \in InitialStores
    /\ cacheCall = NoCacheCall
    /\ scenario = <<>>

CacheIdle ==
    /\ ocache = [configured |-> FALSE, channel |-> <<>>]
    /\ redis = <<>>
    /\ cacheCall = NoCacheCall
    /\ scenario = <<>>

\* the calls of scenario C
ScenarioC ==
    << [op |-> "set", group |-> <<"batch", "1">>, key |-> <<"item", "1">>, arg |-> CarrierC],
       [op |-> "get", group |-> <<"batch", "1">>, key |-> <<"item", "1">>, arg |-> <<>>],
       [op |-> "get", group |-> <<"batch", "1">>, key |-> <<"item", "2">>, arg |-> <<>>],
       [op |-> "deleteGroup", group |-> <<"batch", "1">>, key |-> <<>>, arg |-> <<>>],
       [op |-> "get", group |-> <<"batch", "1">>, key |-> <<"item", "1">>, arg |-> <<>>] >>

\* history: what the latest calls returned, as long as they are the first
\* calls of scenario C made on an empty cache and answered by the server
Follow(call) ==
    LET c == [op |-> call.op, group |-> call.group, key |-> call.key, arg |-> call.arg]
        r == [err |-> call.err, carrier |-> call.carrier]
        n == Len(scenario) + 1
        answered == ocache.configured /\ call.backend = "ok"
    IN IF answered /\ n \in 2..Len(ScenarioC) /\ ScenarioC[n] = c
       THEN Append(scenario, r)
       ELSE IF answered /\ ScenarioC[1] = c /\ Scan(redis, getChannelKey(ocache)) = {}
       THEN <<r>>
       ELSE <<>>

\* the record of one call: its arguments, what it returned, whether the
\* server answered, and (history) the store before the call
CacheCall(op, group, key, arg, err, got, backend) ==
    [op |-> op, group |-> group, key |-> key, arg |-> arg,
     err |-> err, carrier |-> got, backend |-> backend, before |-> redis]

Returns(call, db) ==
    /\ cacheCall' = call
    /\ redis' = db
    /\ scenario' = Follow(call)
    /\ UNCHANGED ocache
    /\ UNCHANGED notCache

\* a wrapper that goes to the store although o.cache is nil
UnconfiguredCallsStore(op, group, key, arg) ==
    Returns(CacheCall(op, group, key, arg, "nil", <<>>, "ok"), <<>>)

\* the `if o.cache == nil` branch of every wrapper
Unconfigured(op, group, key, arg) ==
    Returns(CacheCall(op, group, key, arg, ErrCacheUnconfigured, <<>>, "none"), redis)

\* a Get that reports every failure of the server as a miss
getMissOnFailure(rCache, group, key, backend) ==
    LET r == HGet(redis, getGroupKey(rCache, group), key)
    IN IF backend # "ok" \/ r.err = "redis.Nil" THEN [err |-> "nil", carrier |-> <<>>]
       ELSE [err |-> "nil", carrier |-> jsonUnmarshal(r.val).carrier]

\* getTraceCarrierFromGroup(group, key)
getTraceCarrierFromGroup(rCache, group, key, backend) ==
    LET r == HGet(redis, getGroupKey(rCache, group), key)
        u == jsonUnmarshal(r.val)
    IN IF backend # "ok" THEN [err |-> backend, carrier |-> <<>>]
       ELSE IF r.err = "redis.Nil" THEN [err |-> "nil", carrier |-> <<>>]
       ELSE IF u.err # "nil" THEN [err |-> u.err, carrier |-> <<>>]
       ELSE [err |-> "nil", carrier |-> u.carrier]

\* Observer.GetCacheTraceCarrierFromGroup(group, key)
GetCacheTraceCarrierFromGroup(group, key) ==
    IF ~ocache.configured THEN Unconfigured("get", group, key, <<>>)
    ELSE \E backend \in BackendOutcomes :
            LET r == getTraceCarrierFromGroup(ocache, group, key, backend)
            IN Returns(CacheCall("get", group, key, <<>>, r.err, r.carrier, backend),
                       redis)

\* setTraceCarrierFromGroup(group, key, traceCarrier): the store afterwards
setTraceCarrierFromGroup(rCache, group, key, traceCarrier, backend) ==
    IF backend # "ok" THEN redis
    ELSE HSet(redis, getGroupKey(rCache, group), key, jsonMarshal(traceCarrier))

\* Observer.SetCacheTraceCarrierFromGroup(group, key, traceCarrier)
SetCacheTraceCarrierFromGroup(group, key, traceCarrier) ==
    IF ~ocache.configured THEN Unconfigured("set", group, key, traceCarrier)
    ELSE \E backend \in BackendOutcomes :
            Returns(CacheCall("set", group, key, traceCarrier,
                              IF backend = "ok" THEN "nil" ELSE backend, <<>>, backend),
                    setTraceCarrierFromGroup(ocache, group, key, traceCarrier, backend))

\* deleteTraceCarrierFromGroup(group, key): the store afterwards
deleteTraceCarrierFromGroup(rCache, group, key, backend) ==
    IF backend # "ok" THEN redis
    ELSE HDel(redis, getGroupKey(rCache, group), key)

\* Observer.DeleteCacheTraceCarrierFromGroup(group, key)
DeleteCacheTraceCarrierFromGroup(group, key) ==
    IF ~ocache.configured THEN Unconfigured("delete", group, key, <<>>)
    ELSE \E backend \in BackendOutcomes :
            Returns(CacheCall("delete", group, key, <<>>,
                              IF backend = "ok" THEN "nil" ELSE backend, <<>>, backend),
                    deleteTraceCarrierFromGroup(ocache, group, key, backend))

\* a deleteTraceCarrierGroup that deletes the group one field per command
deleteFieldByField(rCache, group, backend) ==
    LET rkey == getGroupKey(rCache, group)
    IN IF backend # "ok" \/ rkey \notin DOMAIN redis THEN redis
       ELSE HDel(redis, rkey, CHOOSE f \in DOMAIN redis[rkey] : TRUE)

\* a deleteTraceCarrierGroup that deletes every group of the channel
deleteEveryGroup(rCache, group, backend) ==
    IF backend # "ok" THEN redis
    ELSE DelKeys(redis, Scan(redis, getChannelKey(rCache)))

\* deleteTraceCarrierGroup(group): the store afterwards
deleteTraceCarrierGroup(rCache, group, backend) ==
    IF backend # "ok" THEN redis
    ELSE DelKeys(redis, {getGroupKey(rCache, group)})

\* Observer.DeleteCacheTraceCarrierGroup(group)
DeleteCacheTraceCarrierGroup(group) ==
    IF ~ocache.configured THEN Unconfigured("deleteGroup", group, <<>>, <<>>)
    ELSE \E backend \in BackendOutcomes :
            Returns(CacheCall("deleteGroup", group, <<>>, <<>>,
                              IF backend = "ok" THEN "nil" ELSE backend, <<>>, backend),
                    deleteTraceCarrierGroup(ocache, group, backend))

\* clearTraceCarrier(): SCAN of `channelKey*` (a failure is only logged),
\* then one DEL of the keys found; DEL without a key is refused by the server
clearTraceCarrier(rCache, scanned, backend) ==
    LET keys == IF scanned = "ok" THEN Scan(redis, getChannelKey(rCache)) ELSE {}
    IN IF backend # "ok" THEN [err |-> backend, db |-> redis]
       ELSE IF keys = {}
       THEN [err |-> "ERR wrong number of arguments for 'del' command", db |-> redis]
       ELSE [err |-> "nil", db |-> DelKeys(redis, keys)]

\* Observer.ClearCacheTraceCarrier()
ClearCacheTraceCarrier ==
    IF ~ocache.configured THEN Unconfigured("clear", <<>>, <<>>, <<>>)
    ELSE \E scanned \in BackendOutcomes, backend \in BackendOutcomes :
            LET r == clearTraceCarrier(ocache, scanned, backend)
            IN Returns(CacheCall("clear", <<>>, <<>>, <<>>, r.err, <<>>, backend),
                       r.db)

CacheNext ==
    \/ \E group \in Groups, key \in CacheKeys :
          GetCacheTraceCarrierFromGroup(group, key)
    \/ \E group \in Groups, key \in CacheKeys, traceCarrier \in SetCarriers :
          SetCacheTraceCarrierFromGroup(group, key, traceCarrier)
    \/ \E group \in Groups, key \in CacheKeys :
          DeleteCacheTraceCarrierFromGroup(group, key)
    \/ \E group \in Groups : DeleteCacheTraceCarrierGroup(group)
    \/ ClearCacheTraceCarrier


(***************************************************************************)
(* ExampleService.BulkAsync_GetById: a loop that starts one Span and one   *)
(* goroutine per iteration, and the goroutines.                            *)
(***************************************************************************)
\* for i := 1; i <= 5; i++
BulkIterations == 5

\* the group and the key of iteration i: fmt.Sprintf("%s-%d", exampleUuid, i)
BulkGroup == <<"my-job">>
BulkKey(i) == <<"uuid", "-", i>>

\* a goroutine that sees the loop variable after the loop has ended
WorkerKeyAfterLoop(w) == <<"uuid", "-", BulkIterations + 1>>

\* the key the goroutine of iteration w computes at line 205 from the loop
\* variable i it captured: each iteration has its own i
WorkerKey(w) == BulkKey(w)

\* the Spans of iteration i: the one of the loop body, the one a goroutine
\* starts first, the one it starts from the carrier read from the cache
BulkRoles == <<"dispatching", "initial", "fromCarrier">>
BulkSpanNumber(i, role) ==
    3 * (i - 1) + (CHOOSE r \in DOMAIN BulkRoles : BulkRoles[r] = role)

\* otel.NewSpan(ctx, name) of iteration i
BulkNewSpan(i, role, ctx) ==
    LET coreSpan == tracerStart(ctx, BulkSpanNumber(i, role))
    IN [coreSpan |-> coreSpan,
        spanCtx |-> Context(coreSpan.sc, ctx.bag),
        err |-> "nil",
        dones |-> 0]

\* span.Done()
BulkDone(span) ==
    [span EXCEPT !.coreSpan = doneCore(span.coreSpan, <<>>, span.err),
                 !.dones = @ + 1]

\* the deferred calls of the loop, run at return: last deferred first
RECURSIVE RunDeferred(_, _)
RunDeferred(created, deferred) ==
    IF deferred = <<>> THEN created
    ELSE LET name == deferred[Len(deferred)]
         IN RunDeferred([created EXCEPT ![name] = BulkDone(@)],
                        SubSeq(deferred, 1, Len(deferred) - 1))

\* at most this many Redis commands and GetById calls of one run fail
MaxBulkFaults == 1

\* what repository.ExampleRepo.GetById may return as error
RepoErrs == {"nil", "db error"}

\* a call with these outcomes fails or not; failures are counted
Faults(outcomes) == Cardinality({o \in outcomes : o \notin {"ok", "nil"}})
MayFail(outcomes) ==
    /\ bulkFaults + Faults(outcomes) <= MaxBulkFaults
    /\ bulkFaults' = bulkFaults + Faults(outcomes)

BulkInit ==
    /\ bulkLoop = [i |-> 1, deferred |-> <<>>, returned |-> FALSE]
    /\ bulkWorkers = [w \in 1..BulkIterations |->
                         [pc |-> "none", span |-> <<>>]]
    /\ bulkSpans = <<>>
    /\ bulkFaults = 0

BulkIdle == BulkInit

\* the cache wrappers as BulkAsync_GetById calls them
BulkSet(key, traceCarrier, backend) ==
    IF ocache.configured
    THEN setTraceCarrierFromGroup(ocache, BulkGroup, key, traceCarrier, backend)
    ELSE redis
BulkGet(key, backend) ==
    IF ocache.configured
    THEN getTraceCarrierFromGroup(ocache, BulkGroup, key, backend)
    ELSE [err |-> ErrCacheUnconfigured, carrier |-> <<>>]
BulkDelete(key, backend) ==
    IF ocache.configured
    THEN deleteTraceCarrierFromGroup(ocache, BulkGroup, key, backend)
    ELSE redis

\* one iteration of the loop: lines 194-232
BulkIteration ==
    /\ ~bulkLoop.returned
    /\ bulkLoop.i <= BulkIterations
    /\ LET i == bulkLoop.i
           name == <<i, "dispatching">>
           span == BulkNewSpan(i, "dispatching", Background)
       IN /\ bulkSpans' = (name :> span) @@ bulkSpans
          /\ bulkLoop' = [bulkLoop EXCEPT !.i = i + 1,
                                          !.deferred = Append(@, name)]
          /\ \E backend \in BackendOutcomes :
                /\ MayFail({backend})
                /\ redis' = BulkSet(BulkKey(i), Inject(span.spanCtx), backend)
          /\ bulkWorkers' = [bulkWorkers EXCEPT ![i].pc = "go"]
    /\ UNCHANGED notBulk

\* return "success", nil: line 235, with the deferred span.Done() calls
BulkReturn ==
    /\ ~bulkLoop.returned
    /\ bulkLoop.i > BulkIterations
    /\ bulkSpans' = RunDeferred(bulkSpans, bulkLoop.deferred)
    /\ bulkLoop' = [bulkLoop EXCEPT !.deferred = <<>>, !.returned = TRUE]
    /\ UNCHANGED <<bulkWorkers, bulkFaults, redis>>
    /\ UNCHANGED notBulk

\* the goroutine of iteration w: line 203
WorkerNewSpan(w) ==
    /\ bulkWorkers[w].pc = "go"
    /\ LET name == <<w, "initial">>
       IN /\ bulkSpans' = (name :> BulkNewSpan(w, "initial", Background)) @@ bulkSpans
          /\ bulkWorkers' = [bulkWorkers EXCEPT ![w].pc = "started",
                                                ![w].span = name]
    /\ UNCHANGED <<bulkLoop, bulkFaults, redis>>
    /\ UNCHANGED notBulk

\* lines 205-213: the carrier is read; without an error the variable span is
\* assigned a second Span; span.Done() is deferred on the value it has then
WorkerGet(w) ==
    /\ bulkWorkers[w].pc = "started"
    /\ \E backend \in BackendOutcomes :
          LET r == BulkGet(WorkerKey(w), backend)
              name == <<w, "fromCarrier">>
          IN /\ MayFail({backend})
             /\ IF r.err # "nil"
                THEN /\ bulkWorkers' = [bulkWorkers EXCEPT ![w].pc = "deferred"]
                     /\ UNCHANGED bulkSpans
                ELSE /\ bulkSpans' =
                           (name :> BulkNewSpan(w, "fromCarrier", Extract(r.carrier)))
                               @@ bulkSpans
                     /\ bulkWorkers' = [bulkWorkers EXCEPT ![w].pc = "deferred",
                                                           ![w].span = name]
    /\ UNCHANGED <<bulkLoop, redis>>
    /\ UNCHANGED notBulk

\* lines 215-232: GetById; on an error span.SetError(err) and return,
\* otherwise the cache entry is deleted; the deferred span.Done() runs
WorkerReturn(w) ==
    /\ bulkWorkers[w].pc = "deferred"
    /\ LET name == bulkWorkers[w].span
       IN \E err \in RepoErrs, backend \in BackendOutcomes :
             /\ MayFail(IF err # "nil" THEN {err} ELSE {backend})
             /\ bulkSpans' = [bulkSpans EXCEPT
                    ![name] = BulkDone([@ EXCEPT !.err = err])]
             /\ bulkWorkers' = [bulkWorkers EXCEPT ![w].pc = "returned"]
             /\ redis' = IF err # "nil" THEN redis
                         ELSE BulkDelete(WorkerKey(w), backend)
    /\ UNCHANGED bulkLoop
    /\ UNCHANGED notBulk

BulkNext ==
    \/ BulkIteration
    \/ BulkReturn
    \/ \E w \in 1..BulkIterations : WorkerNewSpan(w)
    \/ \E w \in 1..BulkIterations : WorkerGet(w)
    \/ \E w \in 1..BulkIterations : WorkerReturn(w)

(***************************************************************************)
(* Goroutines using the cache at the same time: one deletes a group while  *)
(* others read its keys.  Each Redis command is one step of the server.    *)
(***************************************************************************)
\* number of goroutines reading, and of Get calls each makes
NumReaders == 2
MaxReads == 2

\* the sequences of n keys a reader may ask for
KeySeqs(n) == [1..n -> CacheKeys]

\* the store when the goroutines start: both keys of batch1 and one of batch2
RaceStore ==
    LET rCache == [configured |-> TRUE, channel |-> CacheChannel]
    IN (getGroupKey(rCache, <<"batch", "1">>) :>
            ((<<"item", "1">> :> jsonMarshal(CarrierC))
                @@ (<<"item", "2">> :> jsonMarshal(CarrierD))))
       @@ (getGroupKey(rCache, <<"batch", "2">>) :>
            (<<"item", "1">> :> jsonMarshal(CarrierD)))

RaceInit ==
    /\ deleter = [pc |-> "idle", group |-> <<"batch", "1">>, err |-> "nil"]
    /\ readers \in [1..NumReaders -> [todo : KeySeqs(MaxReads), seen : {<<>>}]]

RaceIdle ==
    /\ deleter = [pc |-> "idle", group |-> <<>>, err |-> "nil"]
    /\ readers = <<>>

\* what a caller of Get sees of the key
Observed(r) ==
    IF r.err # "nil" THEN "error"
    ELSE IF r.carrier = <<>> THEN "missing" ELSE "present"

\* DeleteCacheTraceCarrierGroup(group) is called: the command is under way
DeleterCall ==
    /\ deleter.pc = "idle"
    /\ deleter' = [deleter EXCEPT !.pc = "deleting"]
    /\ UNCHANGED <<readers, redis>>
    /\ UNCHANGED notRace

\* the server executes the command of deleteTraceCarrierGroup; the call
\* returns when the group key is gone or the command failed
DeleterCommand ==
    /\ deleter.pc = "deleting"
    /\ \E backend \in BackendOutcomes :
          LET db == deleteTraceCarrierGroup(ocache, deleter.group, backend)
              gone == getGroupKey(ocache, deleter.group) \notin DOMAIN db
          IN /\ redis' = db
             /\ deleter' = [deleter EXCEPT
                    !.pc = IF backend # "ok" \/ gone THEN "returned" ELSE "deleting",
                    !.err = IF backend # "ok" THEN backend ELSE "nil"]
    /\ UNCHANGED readers
    /\ UNCHANGED notRace

\* reader r calls GetCacheTraceCarrierFromGroup(group, key) on its next key
ReaderGet(r) ==
    /\ readers[r].todo # <<>>
    /\ \E backend \in BackendOutcomes :
          LET key == Head(readers[r].todo)
              got == getTraceCarrierFromGroup(ocache, deleter.group, key, backend)
          IN readers' = [readers EXCEPT
                 ![r].todo = Tail(@),
                 ![r].seen = Append(@, [key |-> key, saw |-> Observed(got),
                                        during |-> deleter.pc])]
    /\ UNCHANGED <<deleter, redis>>
    /\ UNCHANGED notRace

RaceNext ==
    \/ DeleterCall
    \/ DeleterCommand
    \/ \E r \in 1..NumReaders : ReaderGet(r)

(***************************************************************************)
(* The Observer's components: registration of the instruments by           *)
(* initMeter, the recording calls, and calls on components that were not   *)
(* configured.  Two variants of the code: the Observer object and the      *)
(* package-level variables.                                                *)
(***************************************************************************)
\* bounds: definitions registered by initMeter, calls made afterwards
MaxDefs == 2
MaxApiCalls == 2

Variants == {"observer", "global"}
Kinds == {"counter", "upDownCounter", "histogram", "gauge"}

\* metric names, as pieces; the meter refuses a name with a space
InstrumentNames == {<<"requests">>, <<"q", " ", "depth">>}
RecordValues == {0 - 1, 0, 2}
RecordAttrs == {HostA}

\* metricNamePrefix and MetricName.Get()
metricNamePrefix == <<"custom_">>
Get(name) == metricNamePrefix \o name

\* the map of the manager that holds the instruments of a kind
MapOf(kind) ==
    CASE kind = "counter" -> "counters"
      [] kind = "upDownCounter" -> "upDownCounters"
      [] kind = "histogram" -> "histograms"
      [] kind = "gauge" -> "gauges"

\* newMetricCollectorManager()
newMetricCollectorManager ==
    [counters |-> <<>>, upDownCounters |-> <<>>, histograms |-> <<>>, gauges |-> <<>>]

\* meter.Int64Counter(name, ..) and the like: the meter checks the name
sdkAccepts(fullName) == \A i \in DOMAIN fullName : fullName[i] # " "
sdkNewInstrument(meters, kind, fullName) ==
    LET handle == Cardinality(DOMAIN meters.instruments) + 1
    IN [meters EXCEPT !.instruments =
           (handle :> [kind |-> kind, name |-> fullName, sums |-> <<>>, counts |-> <<>>])
               @@ @]

\* counter.Add / upDownCounter.Add / histogram.Record on an instrument
sdkRecord(meters, handle, value, attrSet) ==
    LET i == meters.instruments[handle]
        old == IF attrSet \in DOMAIN i.sums THEN i.sums[attrSet] ELSE 0
        n == IF attrSet \in DOMAIN i.counts THEN i.counts[attrSet] ELSE 0
    IN [meters EXCEPT !.instruments[handle].sums = (attrSet :> old + value) @@ @,
                      !.instruments[handle].counts = (attrSet :> n + 1) @@ @]

NoApiCall == [api |-> "none"]

ObserverInit ==
    /\ observer \in [variant : Variants, meter : BOOLEAN, logger : BOOLEAN,
                     tracer : BOOLEAN, phase : {"init"}, ndefs : {0}, ncalls : {0}]
    /\ mcm = newMetricCollectorManager
    /\ sdk = [instruments |-> <<>>, callbacks |-> {}]
    /\ apiCall = NoApiCall
    /\ proc = "running"

ObserverIdle ==
    /\ observer = [variant |-> "observer", meter |-> FALSE, logger |-> FALSE,
                   tracer |-> FALSE, phase |-> "init", ndefs |-> 0, ncalls |-> 0]
    /\ mcm = newMetricCollectorManager
    /\ sdk = [instruments |-> <<>>, callbacks |-> {}]
    /\ apiCall = NoApiCall
    /\ proc = "running"

\* the record of one call: what it logged (diag), what it returned (err),
\* and (history) the manager and the instruments before the call
ApiCall(api, kind, name, value, diag, err) ==
    [api |-> api, kind |-> kind, name |-> name, value |-> value,
     diag |-> diag, err |-> err, before |-> [mcm |-> mcm, sdk |-> sdk]]

\* a register function that replaces the instrument of a name already there
registerOverwrite(kind, metricDefName) ==
    LET name == Get(metricDefName)
        handle == Cardinality(DOMAIN sdk.instruments) + 1
        created == sdkNewInstrument(sdk, kind, name)
    IN IF ~sdkAccepts(name)
       THEN [err |-> "failed to create", mcm |-> mcm, sdk |-> sdk]
       ELSE [err |-> "nil", sdk |-> created,
             mcm |-> [mcm EXCEPT ![MapOf(kind)] = (name :> handle) @@ @]]

\* registerCounter / registerUpDownCounter / registerHistogram /
\* registerGauge (metricDef): what it returns, the manager and the
\* instruments afterwards
register(kind, metricDefName) ==
    LET name == Get(metricDefName)
        handle == Cardinality(DOMAIN sdk.instruments) + 1
        created == sdkNewInstrument(sdk, kind, name)
    IN IF name \in DOMAIN mcm[MapOf(kind)]
       THEN [err |-> "already exists", mcm |-> mcm, sdk |-> sdk]
       ELSE IF ~sdkAccepts(name)
       THEN [err |-> "failed to create", mcm |-> mcm, sdk |-> sdk]
       ELSE IF kind = "gauge"
       THEN [err |-> "nil",
             sdk |-> [created EXCEPT !.callbacks = @ \cup {handle}],
             mcm |-> [mcm EXCEPT !.gauges =
                         (name :> [instrument |-> handle, currentVals |-> <<>>]) @@ @]]
       ELSE [err |-> "nil", sdk |-> created,
             mcm |-> [mcm EXCEPT ![MapOf(kind)] = (name :> handle) @@ @]]

\* one iteration of the loop of initMeter over config.MetricDefs: the
\* definition is registered; an error ends the process (stdLog.Fatalf)
InitMeterRegister(kind, metricDefName) ==
    /\ proc = "running" /\ observer.meter /\ observer.phase = "init"
    /\ observer.ndefs < MaxDefs
    /\ LET r == register(kind, metricDefName)
       IN /\ mcm' = r.mcm
          /\ sdk' = r.sdk
          /\ apiCall' = ApiCall("register", kind, metricDefName, 0,
                                IF r.err = "nil" THEN "" ELSE "Failed to register", r.err)
          /\ proc' = IF r.err = "nil" THEN "running" ELSE "exited"
    /\ observer' = [observer EXCEPT !.ndefs = @ + 1]
    /\ UNCHANGED notObserver

\* NewOtelObserver returns: the options have been applied
InitDone ==
    /\ proc = "running" /\ observer.phase = "init"
    /\ observer' = [observer EXCEPT !.phase = "ready"]
    /\ UNCHANGED <<mcm, sdk, apiCall, proc>>
    /\ UNCHANGED notObserver

\* a call on a component that was not configured: the Observer reports it
\* and returns; the package-level variable is nil and is dereferenced
UnconfiguredCall(api, kind, name, value, diag) ==
    IF observer.variant = "observer"
    THEN /\ apiCall' = ApiCall(api, kind, name, value, diag, "nil")
         /\ UNCHANGED <<mcm, sdk, proc>>
    ELSE /\ apiCall' = ApiCall(api, kind, name, value, "", "nil")
         /\ proc' = "panicked"
         /\ UNCHANGED <<mcm, sdk>>

\* a recording call that logs and returns
Dropped(api, kind, name, value, diag) ==
    /\ apiCall' = ApiCall(api, kind, name, value, diag, "nil")
    /\ UNCHANGED <<mcm, sdk, proc>>

\* a RecordCounter without the `value < 0` branch
recordCounterAdds(name, value, attrs) ==
    IF Get(name) \notin DOMAIN mcm.counters
    THEN Dropped("record", "counter", name, value, "Not found")
    ELSE /\ sdk' = sdkRecord(sdk, mcm.counters[Get(name)], value, AttrSet(attrs))
         /\ apiCall' = ApiCall("record", "counter", name, value, "", "nil")
         /\ UNCHANGED <<mcm, proc>>

\* RecordCounterWithCtx on a configured meter
recordCounter(name, value, attrs) ==
    IF Get(name) \notin DOMAIN mcm.counters
    THEN Dropped("record", "counter", name, value, "Not found")
    ELSE IF value < 0
    THEN Dropped("record", "counter", name, value, "Value must be non-negative")
    ELSE /\ sdk' = sdkRecord(sdk, mcm.counters[Get(name)], value, AttrSet(attrs))
         /\ apiCall' = ApiCall("record", "counter", name, value, "", "nil")
         /\ UNCHANGED <<mcm, proc>>

\* a recording call that registers the name it does not find
recordCreates(kind, name, value, attrs) ==
    LET r == registerOverwrite(kind, name)
    IN /\ mcm' = r.mcm
       /\ sdk' = r.sdk
       /\ apiCall' = ApiCall("record", kind, name, value, "", "nil")
       /\ UNCHANGED proc

\* RecordUpDownCounterWithCtx / RecordHistogramWithCtx on a configured meter
recordInstrument(kind, name, value, attrs) ==
    IF Get(name) \notin DOMAIN mcm[MapOf(kind)]
    THEN Dropped("record", kind, name, value, "Not found")
    ELSE /\ sdk' = sdkRecord(sdk, mcm[MapOf(kind)][Get(name)], value, AttrSet(attrs))
         /\ apiCall' = ApiCall("record", kind, name, value, "", "nil")
         /\ UNCHANGED <<mcm, proc>>

\* RecordGauge on a configured meter, as one step
recordGauge(name, value, attrs) ==
    IF Get(name) \notin DOMAIN mcm.gauges
    THEN Dropped("record", "gauge", name, value, "Not found")
    ELSE /\ mcm' = [mcm EXCEPT !.gauges[Get(name)].currentVals =
                       (hashAttrs(attrs) :>
                           [value |-> value, attrs |-> SortSlice(attrs),
                            updatedAt |-> observer.ncalls]) @@ @]
         /\ apiCall' = ApiCall("record", "gauge", name, value, "", "nil")
         /\ UNCHANGED <<sdk, proc>>

\* Observer.RecordCounter / RecordUpDownCounter / RecordHistogram /
\* RecordGauge (name, value, metricAttrs)
Record(kind, name, value, metricAttrs) ==
    /\ proc = "running" /\ observer.phase = "ready"
    /\ observer.ncalls < MaxApiCalls
    /\ observer' = [observer EXCEPT !.ncalls = @ + 1]
    /\ IF ~observer.meter
       THEN UnconfiguredCall("record", kind, name, value, "meter is unconfigured")
       ELSE \E order \in IterOrders(metricAttrs) :
               LET attrs == mapToAttribute(metricAttrs, order)
               IN CASE kind = "counter" -> recordCounter(name, value, attrs)
                    [] kind = "gauge" -> recordGauge(name, value, attrs)
                    [] OTHER -> recordInstrument(kind, name, value, attrs)
    /\ UNCHANGED notObserver

\* Observer.InfoLog and the like: logWithMeta
LogCall ==
    /\ proc = "running" /\ observer.phase = "ready"
    /\ observer.ncalls < MaxApiCalls
    /\ observer' = [observer EXCEPT !.ncalls = @ + 1]
    /\ IF ~observer.logger
       THEN UnconfiguredCall("log", "", <<>>, 0, "logger is unconfigured")
       ELSE /\ apiCall' = ApiCall("log", "", <<>>, 0, "", "nil")
            /\ UNCHANGED <<mcm, sdk, proc>>
    /\ UNCHANGED notObserver

\* Observer.NewSpan: NewOtelObserver sets a default tracer when none was
\* configured; the package-level tracer stays nil
NewSpanCall ==
    /\ proc = "running" /\ observer.phase = "ready"
    /\ observer.ncalls < MaxApiCalls
    /\ observer' = [observer EXCEPT !.ncalls = @ + 1]
    /\ IF observer.tracer \/ observer.variant = "observer"
       THEN /\ apiCall' = ApiCall("newSpan", "", <<>>, 0,
                                  IF observer.tracer THEN "" ELSE "default-tracer", "nil")
            /\ UNCHANGED <<mcm, sdk, proc>>
       ELSE UnconfiguredCall("newSpan", "", <<>>, 0, "")
    /\ UNCHANGED notObserver

ObserverNext ==
    \/ \E kind \in Kinds, name \in InstrumentNames : InitMeterRegister(kind, name)
    \/ InitDone
    \/ \E kind \in Kinds, name \in InstrumentNames, value \in RecordValues,
          metricAttrs \in RecordAttrs : Record(kind, name, value, metricAttrs)
    \/ LogCall
    \/ NewSpanCall

(***************************************************************************)
(* Observer.Shutdown and the sub-shutdowns the options registered          *)
(***************************************************************************)
\* context.WithTimeout(context.Background(), 10*time.Minute), in ticks of
\* five minutes
shutdownTimeout == 2

\* the components whose option appends a sub-shutdown
Components == {"tracer", "logger", "meter"}

\* the options of NewOtelObserver, applied in the order given
OptionOrders ==
    {order \in UNION {[1..n -> Components] : n \in 0..Cardinality(Components)} :
        \A i, j \in DOMAIN order : i # j => order[i] # order[j]}

\* how a provider's Shutdown(ctx) ends: flushed, failed, or it ran until the
\* context was done
SubOutcomes == {"ok", "error", "deadline exceeded"}

ShutdownInit ==
    /\ shutdowns \in OptionOrders
    /\ sd = [pc |-> "idle", i |-> 1, now |-> 0, deadline |-> 0, invoked |-> <<>>]

ShutdownIdle ==
    /\ shutdowns = <<>>
    /\ sd = [pc |-> "idle", i |-> 1, now |-> 0, deadline |-> 0, invoked |-> <<>>]

\* shutdownCtx, cancel := context.WithTimeout(..); defer cancel()
ShutdownCall ==
    /\ sd.pc = "idle"
    /\ sd' = [sd EXCEPT !.pc = "loop", !.deadline = sd.now + shutdownTimeout]
    /\ UNCHANGED shutdowns
    /\ UNCHANGED notShutdown

\* a loop that gives up after the first sub-shutdown that did not succeed
AfterStopOnFailure(i, outcome) ==
    IF outcome = "ok" THEN i + 1 ELSE Len(shutdowns) + 1

\* for _, shutdown := range o.shutdowns: the next index after an iteration
After(i, outcome) == i + 1

\* one iteration: shutdown(shutdownCtx).  The provider flushes within the
\* time left, fails, or is cut off when the context is done; the error is
\* logged by the sub-shutdown and not returned
SubShutdown ==
    /\ sd.pc = "loop" /\ sd.i <= Len(shutdowns)
    /\ \E outcome \in SubOutcomes :
          \E end \in sd.now..sd.deadline :
             /\ outcome = "deadline exceeded" => end = sd.deadline
             /\ (outcome = "ok" /\ sd.now = sd.deadline) => FALSE
             /\ sd' = [sd EXCEPT
                    !.i = After(sd.i, outcome),
                    !.now = IF end > sd.now THEN end ELSE sd.now,
                    !.invoked = Append(@, [name |-> shutdowns[sd.i],
                                           deadline |-> sd.deadline,
                                           at |-> sd.now,
                                           outcome |-> outcome])]
    /\ UNCHANGED shutdowns
    /\ UNCHANGED notShutdown

\* the loop is over: Shutdown returns, the deferred cancel() runs
ShutdownReturn ==
    /\ sd.pc = "loop" /\ sd.i > Len(shutdowns)
    /\ sd' = [sd EXCEPT !.pc = "returned"]
    /\ UNCHANGED shutdowns
    /\ UNCHANGED notShutdown

ShutdownNext ==
    \/ ShutdownCall
    \/ SubShutdown
    \/ ShutdownReturn

(***************************************************************************)
(* Logging calls made at the same time on one logger                       *)
(***************************************************************************)
\* goroutines that log, and the bound of the calls they make together
LogGoroutines == {"g1", "g2"}
MaxConcLogs == 2

NoLogCall == [pc |-> "idle", ctx |-> "background", i |-> 0, rec |-> NoRecord]

LogRaceInit ==
    logCalls = [by |-> [g \in LogGoroutines |-> NoLogCall], made |-> 0,
                latest |-> "background"]

LogRaceIdle ==
    logCalls = [by |-> <<>>, made |-> 0, latest |-> "background"]

\* ids kept on the logger by the latest call, whoever made it
idsOfLatestCall(ctx) == getTraceInfo(logCalls.latest)

\* traceID, spanID := getTraceInfo(ctx) in multiHandler.Handle: the ids are
\* locals of the call
idsOfCall(ctx) == getTraceInfo(ctx)

\* goroutine g calls a logging function with ctx: logWithMeta, LogAttrs, and
\* when a sink is enabled for the level the start of multiHandler.Handle
ConcLogWithMeta(g, ctx, level) ==
    /\ logCalls.by[g].pc = "idle" /\ logCalls.made < MaxConcLogs
    /\ logCalls' = [logCalls EXCEPT
          !.made = @ + 1,
          !.latest = ctx,
          !.by[g] = IF Enabled(handlers, level)
                    THEN [pc |-> "handle", ctx |-> ctx, i |-> 1,
                          rec |-> [id |-> logCalls.made + 1, level |-> level,
                                   trace_id |-> "", span_id |-> ""]]
                    ELSE NoLogCall]
    /\ UNCHANGED received
    /\ UNCHANGED notLogRace

\* one iteration of the loop of Handle in goroutine g: the clone of the
\* record with the ids added is given to the next handler
ConcHandleDispatch(g) ==
    /\ logCalls.by[g].pc = "handle" /\ logCalls.by[g].i \in DOMAIN handlers
    /\ LET c == logCalls.by[g]
           ids == idsOfCall(c.ctx)
           r == [c.rec EXCEPT !.trace_id = ids.trace_id, !.span_id = ids.span_id]
           err == IF handlers[c.i].fails THEN "write failed" ELSE "nil"
       IN /\ received' = [received EXCEPT
                 ![c.i] = Append(@, [rec |-> r, ctx |-> c.ctx, by |-> g])]
          /\ logCalls' = [logCalls EXCEPT
                 !.by[g] = IF StopOnError(err) THEN NoLogCall
                           ELSE [c EXCEPT !.i = @ + 1]]
    /\ UNCHANGED notLogRace

\* the loop of goroutine g is over: return nil
ConcHandleReturn(g) ==
    /\ logCalls.by[g].pc = "handle" /\ logCalls.by[g].i \notin DOMAIN handlers
    /\ logCalls' = [logCalls EXCEPT !.by[g] = NoLogCall]
    /\ UNCHANGED received
    /\ UNCHANGED notLogRace

LogRaceNext ==
    \/ \E g \in LogGoroutines, ctx \in Contexts, level \in Levels :
          ConcLogWithMeta(g, ctx, level)
    \/ \E g \in LogGoroutines : ConcHandleDispatch(g)
    \/ \E g \in LogGoroutines : ConcHandleReturn(g)

(***************************************************************************)
(* Attribute maps through RecordGauge: mapToAttribute, hashAttrs and the   *)
(* series of one registered gauge                                          *)
(***************************************************************************)
\* "7", the decimal form of math.MaxInt64 at the width of the model
StrSeven == <<55>>

\* the keys and the values of the attribute maps: every case of the type
\* switch, the unsigned types on both sides of math.MaxInt64
CodecKeys == {StrA, StrB}
CodecVals ==
    {GoVal("string", StrSeven), GoVal("bool", TRUE),
     GoVal("int", 0 - 1), GoVal("int64", MaxInt64),
     GoVal("uint", MaxInt64), GoVal("uint", MaxUint64),
     GoVal("uint64", MaxInt64), GoVal("uint64", MaxInt64 + 1),
     GoNil, GoVal("other", 0)}
CodecMaps == UNION {[D -> CodecVals] : D \in SUBSET CodecKeys}

\* the calls are numbered; call i is given the map codec.maps[i]
CodecCalls == {1, 2}

CodecInit ==
    \E m \in [CodecCalls -> CodecMaps] :
      \E o \in [CodecCalls -> UNION {IterOrders(mm) : mm \in CodecMaps}] :
        /\ \A i \in CodecCalls : o[i] \in IterOrders(m[i])
        /\ codec = [maps |-> m, orders |-> o, out |-> <<>>, logged |-> <<>>,
                    keys |-> <<>>, currentVals |-> <<>>]

CodecIdle ==
    codec = [maps |-> <<>>, orders |-> <<>>, out |-> <<>>, logged |-> <<>>,
             keys |-> <<>>, currentVals |-> <<>>]

\* o.RecordGauge(name, value, metricAttrs) for a registered gauge, the i-th
\* call: attrs := mapToAttribute(metricAttrs), key := hashAttrs(attrs), and
\* under the lock currentVals[key] gets the value and the attributes
CodecRecordGauge(i) ==
    /\ i \notin DOMAIN codec.out
    /\ \A j \in CodecCalls : j < i => j \in DOMAIN codec.out
    /\ LET attrs == mapToAttribute(codec.maps[i], codec.orders[i])
           key == hashAttrs(attrs)
       IN codec' = [codec EXCEPT
              !.out = (i :> attrs) @@ @,
              !.logged = (i :> droppedKeys(codec.maps[i], codec.orders[i])) @@ @,
              !.keys = (i :> key) @@ @,
              !.currentVals = (key :> [value |-> i, attrs |-> SortSlice(attrs)]) @@ @]
    /\ UNCHANGED notCodec

CodecNext == \E i \in CodecCalls : CodecRecordGauge(i)

(***************************************************************************)
(* The once-guarded NewOtelObserver of the package-level library           *)
(***************************************************************************)
\* bound of the calls of NewOtelObserver and of the returned functions
MaxObserverCalls == 3

OnceInit ==
    singleton = [done |-> FALSE, inits |-> [c \in Components |-> 0],
                 shutdowns |-> <<>>, returned |-> <<>>, invoked |-> <<>>,
                 proc |-> "running"]

OnceIdle ==
    singleton = [done |-> FALSE, inits |-> <<>>, shutdowns |-> <<>>,
                 returned |-> <<>>, invoked |-> <<>>, proc |-> "running"]

\* NewOtelObserver(opts...): `var shutdown func()` is nil; the function
\* given to observerOnce.Do runs in the first call only, applies the options
\* (each initialises its component and appends its sub-shutdown) and assigns
\* the closure to shutdown; `return shutdown`
OnceNewOtelObserver(opts) ==
    /\ singleton.proc = "running"
    /\ Len(singleton.returned) < MaxObserverCalls
    /\ singleton' =
          IF ~singleton.done
          THEN [singleton EXCEPT
                   !.done = TRUE,
                   !.inits = [c \in Components |->
                                 @[c] + Cardinality({k \in DOMAIN opts : opts[k] = c})],
                   !.shutdowns = opts,
                   !.returned = Append(@, "func")]
          ELSE [singleton EXCEPT !.returned = Append(@, "nil")]
    /\ UNCHANGED notOnce

\* shutdown(), or defer shutdown(), on the k-th returned value: a call of a
\* nil func value panics; the closure runs every sub-shutdown
OnceCallShutdown(k) ==
    /\ singleton.proc = "running"
    /\ k \in DOMAIN singleton.returned
    /\ Len(singleton.invoked) < MaxObserverCalls
    /\ singleton' =
          IF singleton.returned[k] = "nil"
          THEN [singleton EXCEPT !.proc = "panicked"]
          ELSE [singleton EXCEPT !.invoked = Append(@, singleton.shutdowns)]
    /\ UNCHANGED notOnce

OnceNext ==
    \/ \E opts \in OptionOrders : OnceNewOtelObserver(opts)
    \/ \E k \in 1..MaxObserverCalls : OnceCallShutdown(k)

(***************************************************************************)
(* ExampleService.GetById and CrossService_GetById on CustomSpan           *)
(***************************************************************************)
\* bound of the calls of the service
MaxServiceCalls == 2

\* the contexts of the callers: no span, a sampled remote parent, a remote
\* parent that is not sampled
ServiceContexts ==
    {Background,
     Context(SpanContext(7, 9, 1, "", TRUE), ""),
     Context(SpanContext(7, 9, 0, "", TRUE), "")}

\* how the work after the start of the Span ends: the errors of the
\* repository, of client.Do, of the status check and of the decoder
ServiceFunctions == {"GetById", "CrossService_GetById"}
WorkOutcomes(fn) ==
    IF fn = "GetById" THEN {"nil", "not found"}
    ELSE {"nil", "connection refused", "request not OK", "unexpected EOF"}

\* CustomSpan.End(): the status follows span.Err, then Span.End()
CustomSpanEnd(core, err) ==
    coreEnd(IF err # "nil"
            THEN coreSetStatus(coreRecordError(core, err), "Error", err)
            ELSE coreSetStatus(core, "Ok", "success"))

SvcIdleCall == [pc |-> "idle", fn |-> "", span |-> <<>>, Err |-> "nil"]

SvcInit == svc = [call |-> SvcIdleCall, finished |-> <<>>]
SvcIdle == SvcInit

\* what a finished call leaves: its Span, what it returned
SvcReturn(fn, span, ret) ==
    svc' = [call |-> SvcIdleCall,
            finished |-> Append(svc.finished, [fn |-> fn, span |-> span, ret |-> ret])]

\* GetById: StartSpanInternal(ctx), defer span.End()
GetByIdStart(ctx) ==
    /\ svc.call.pc = "idle" /\ Len(svc.finished) < MaxServiceCalls
    /\ svc' = [svc EXCEPT !.call =
                  [pc |-> "repo", fn |-> "GetById",
                   span |-> tracerStart(ctx, Len(svc.finished) + 1), Err |-> "nil"]]
    /\ UNCHANGED notSvc

\* GetById: the repository call; on an error span.Err = err; return, and the
\* deferred span.End() runs
GetByIdReturn(err) ==
    /\ svc.call.pc = "repo"
    /\ SvcReturn("GetById", CustomSpanEnd(svc.call.span, err), err)
    /\ UNCHANGED notSvc

\* CrossService_GetById: StartSpanCrossService(ctx, "GET", url).  When the
\* request cannot be built the Span gets the error and is ended there, and
\* the function returns the error (lines 49-51)
CrossServiceStart(ctx, reqErr) ==
    /\ svc.call.pc = "idle" /\ Len(svc.finished) < MaxServiceCalls
    /\ LET span == tracerStart(ctx, Len(svc.finished) + 1) IN
       IF reqErr # "nil"
       THEN SvcReturn("CrossService_GetById",
                      coreEnd(coreSetStatus(coreRecordError(span, reqErr), "Error", reqErr)),
                      reqErr)
       ELSE svc' = [svc EXCEPT !.call =
                       [pc |-> "started", fn |-> "CrossService_GetById",
                        span |-> span, Err |-> "nil"]]
    /\ UNCHANGED notSvc

\* CrossService_GetById, lines 52-56: span.End() (not deferred) and AddEvent
CrossServiceEnd ==
    /\ svc.call.pc = "started"
    /\ svc' = [svc EXCEPT
          !.call.pc = "request",
          !.call.span = coreAddEvent(CustomSpanEnd(svc.call.span, svc.call.Err),
                                     "Request HTTP to service-a", <<>>)]
    /\ UNCHANGED notSvc

\* CrossService_GetById, lines 58-82: the request, the status check and the
\* decoding; each failure does span.Err = err and returns it
CrossServiceReturn(err) ==
    /\ svc.call.pc = "request"
    /\ SvcReturn("CrossService_GetById", svc.call.span, err)
    /\ UNCHANGED notSvc

SvcNext ==
    \/ \E ctx \in ServiceContexts : GetByIdStart(ctx)
    \/ \E err \in WorkOutcomes("GetById") : GetByIdReturn(err)
    \/ \E ctx \in ServiceContexts, reqErr \in {"nil", "invalid URL"} :
          CrossServiceStart(ctx, reqErr)
    \/ CrossServiceEnd
    \/ \E err \in WorkOutcomes("CrossService_GetById") : CrossServiceReturn(err)

(***************************************************************************)
(* Specifications                                                          *)
(***************************************************************************)
\* the gauge engine under concurrent recorders and collection cycles
Init == GaugeInit /\ HashIdle /\ LogIdle /\ SpanIdle /\ CacheIdle /\ BulkIdle /\ RaceIdle /\ ObserverIdle /\ ShutdownIdle /\ LogRaceIdle /\ CodecIdle /\ OnceIdle /\ SvcIdle
Next == GaugeNext
Spec == Init /\ [][Next]_vars

\* hashAttrs on every bounded attribute map and pair of iteration orders
InitHash == HashInit /\ GaugeInit /\ LogIdle /\ SpanIdle /\ CacheIdle /\ BulkIdle /\ RaceIdle /\ ObserverIdle /\ ShutdownIdle /\ LogRaceIdle /\ CodecIdle /\ OnceIdle /\ SvcIdle
NextHash == HashNext
SpecHash == InitHash /\ [][NextHash]_vars

\* the log dispatcher on every configuration of its sinks
InitLog == LogInit /\ GaugeInit /\ HashIdle /\ SpanIdle /\ CacheIdle /\ BulkIdle /\ RaceIdle /\ ObserverIdle /\ ShutdownIdle /\ LogRaceIdle /\ CodecIdle /\ OnceIdle /\ SvcIdle
NextLog == LogNext
SpecLog == InitLog /\ [][NextLog]_vars

\* Spans under every bounded sequence of calls
InitSpan == SpanInit /\ GaugeInit /\ HashIdle /\ LogIdle /\ CacheIdle /\ BulkIdle /\ RaceIdle /\ ObserverIdle /\ ShutdownIdle /\ LogRaceIdle /\ CodecIdle /\ OnceIdle /\ SvcIdle
NextSpan == SpanNext
SpecSpan == InitSpan /\ [][NextSpan]_vars

\* carriers exported and extracted around Spans
NextCarrier == CarrierNext
SpecCarrier == InitSpan /\ [][NextCarrier]_vars

\* the cache API under every sequence of calls, configured or not
InitCache == CacheInit /\ GaugeInit /\ HashIdle /\ LogIdle /\ SpanIdle /\ BulkIdle /\ RaceIdle /\ ObserverIdle /\ ShutdownIdle /\ LogRaceIdle /\ CodecIdle /\ OnceIdle /\ SvcIdle
NextCache == CacheNext
SpecCache == InitCache /\ [][NextCache]_vars

\* BulkAsync_GetById and its goroutines, with or without a configured cache
InitBulk == BulkInit /\ CacheInit /\ GaugeInit /\ HashIdle /\ LogIdle /\ SpanIdle /\ RaceIdle /\ ObserverIdle /\ ShutdownIdle /\ LogRaceIdle /\ CodecIdle /\ OnceIdle /\ SvcIdle
NextBulk == BulkNext
SpecBulk == InitBulk /\ [][NextBulk]_vars

\* a group deleted while its keys are read
InitRace ==
    /\ RaceInit
    /\ ocache = [configured |-> TRUE, channel |-> CacheChannel]
    /\ redis = RaceStore
    /\ cacheCall = NoCacheCall
    /\ scenario = <<>>
    /\ BulkIdle /\ GaugeInit /\ HashIdle /\ LogIdle /\ SpanIdle /\ ObserverIdle /\ ShutdownIdle
    /\ LogRaceIdle /\ CodecIdle /\ OnceIdle /\ SvcIdle
NextRace == RaceNext
SpecRace == InitRace /\ [][NextRace]_vars

\* initMeter and the calls of the API, on every configuration of components
InitObserver ==
    /\ ObserverInit
    /\ GaugeInit /\ HashIdle /\ LogIdle /\ SpanIdle /\ CacheIdle /\ BulkIdle /\ RaceIdle
    /\ ShutdownIdle /\ LogRaceIdle /\ CodecIdle /\ OnceIdle /\ SvcIdle
NextObserver == ObserverNext
SpecObserver == InitObserver /\ [][NextObserver]_vars

\* Shutdown of an Observer built from every order of options
InitShutdown ==
    /\ ShutdownInit
    /\ GaugeInit /\ HashIdle /\ LogIdle /\ SpanIdle /\ CacheIdle /\ BulkIdle /\ RaceIdle
    /\ ObserverIdle /\ LogRaceIdle /\ CodecIdle /\ OnceIdle /\ SvcIdle
NextShutdown == ShutdownNext
SpecShutdown == InitShutdown /\ [][NextShutdown]_vars

\* two goroutines logging on one logger, on every configuration of its sinks
InitLogRace ==
    /\ LogRaceInit
    /\ LogInit
    /\ GaugeInit /\ HashIdle /\ SpanIdle /\ CacheIdle /\ BulkIdle /\ RaceIdle
    /\ ObserverIdle /\ ShutdownIdle /\ CodecIdle /\ OnceIdle /\ SvcIdle
NextLogRace == LogRaceNext
SpecLogRace == InitLogRace /\ [][NextLogRace]_vars

\* two successive RecordGauge calls on one gauge, on every pair of attribute
\* maps and every iteration order
InitCodec ==
    /\ CodecInit
    /\ GaugeInit /\ HashIdle /\ LogIdle /\ SpanIdle /\ CacheIdle /\ BulkIdle
    /\ RaceIdle /\ ObserverIdle /\ ShutdownIdle /\ LogRaceIdle /\ OnceIdle /\ SvcIdle
NextCodec == CodecNext
SpecCodec == InitCodec /\ [][NextCodec]_vars

\* the cache API of one channel on a server that other channels use as well
InitShared ==
    /\ ocache = [configured |-> TRUE, channel |-> CacheChannel]
    /\ redis \in SharedStores
    /\ cacheCall = NoCacheCall
    /\ scenario = <<>>
    /\ GaugeInit /\ HashIdle /\ LogIdle /\ SpanIdle /\ BulkIdle /\ RaceIdle
    /\ ObserverIdle /\ ShutdownIdle /\ LogRaceIdle /\ CodecIdle /\ OnceIdle /\ SvcIdle
NextShared == CacheNext
SpecShared == InitShared /\ [][NextShared]_vars

\* a process that calls NewOtelObserver several times
InitOnce ==
    /\ OnceInit
    /\ GaugeInit /\ HashIdle /\ LogIdle /\ SpanIdle /\ CacheIdle /\ BulkIdle
    /\ RaceIdle /\ ObserverIdle /\ ShutdownIdle /\ LogRaceIdle /\ CodecIdle
    /\ SvcIdle
NextOnce == OnceNext
SpecOnce == InitOnce /\ [][NextOnce]_vars

\* successive calls of the two service functions
InitSvc ==
    /\ SvcInit
    /\ GaugeInit /\ HashIdle /\ LogIdle /\ SpanIdle /\ CacheIdle /\ BulkIdle
    /\ RaceIdle /\ ObserverIdle /\ ShutdownIdle /\ LogRaceIdle /\ CodecIdle
    /\ OnceIdle
NextSvc == SvcNext
SpecSvc == InitSvc /\ [][NextSvc]_vars

(***************************************************************************)
(* Properties of the gauge engine (Spec)                                   *)
(***************************************************************************)
\* the observations of series `key` in the cycle of collector c
ObsOf(c, key) == {o \in BagToSet(col[c].emitted) : o.key = key}

\* collector c has run both loops of its cycle and not yet returned
CycleDone(c) == pc[c] = "runlock"

\* the attribute sets of the two attribute maps
AttrsHostA == {KeyValue(StrHost, "STRING", StrA)}
AttrsHostB == {KeyValue(StrHost, "STRING", StrB)}

\* C1: eviction and emission run in one critical section that holds the
\* gauge's lock in write mode: no entry is ever deleted from the series map
\* by a goroutine that holds the lock in read mode only.
C1_EvictionHoldsWriteLock == evictMode \subseteq {"write"}

\* C2: in every interleaving of RecordGauge calls and collection cycles
\* (overlapping cycles included) the series map is never mutated by one
\* goroutine while another one iterates over it or mutates it.
C2_NoMutationDuringIteration == ~raceSeen

C4_EvictedStaysSilent ==
    \A c \in Collectors : \A o \in BagToSet(col[c].emitted) :
        /\ o.after # "evicted"
        /\ o.after = "rewritten" =>
               /\ o.value = lastCall[o.key].value
               /\ o.by.value = lastCall[o.key].call

\* a series was evicted, written again, and then emitted
C4_Witness ==
    \E c \in Collectors : \E o \in BagToSet(col[c].emitted) :
        o.after = "rewritten" /\ o.by.value = 2

\* C6: after RecordGauge(g, 5, {host: a}) then RecordGauge(g, 9, {host: b}),
\* a collection cycle run within the TTL of both writes emits exactly the
\* two series (host=a, 5) and (host=b, 9).
C6_Precondition(c) ==
    /\ CycleDone(c)
    /\ nstarted = 2
    /\ \E k1, k2 \in DOMAIN lastCall :
        /\ lastCall[k1] = [value |-> 5, attrs |-> AttrsHostA,
                           at |-> lastCall[k1].at, call |-> 1]
        /\ lastCall[k2] = [value |-> 9, attrs |-> AttrsHostB,
                           at |-> lastCall[k2].at, call |-> 2]
        /\ clock - lastCall[k1].at <= defaultGaugeMetricTTL
        /\ clock - lastCall[k2].at <= defaultGaugeMetricTTL

C6_ScenarioB ==
    \A c \in Collectors : C6_Precondition(c) =>
        /\ {<<AttrSet(o.attrs), o.value>> : o \in BagToSet(col[c].emitted)}
               = {<<AttrsHostA, 5>>, <<AttrsHostB, 9>>}
        /\ BagCardinality(col[c].emitted) = 2

\* the scenario has run and its cycle has ended within the TTL
C6_Witness == \E c \in Collectors : C6_Precondition(c)

\* C7: whenever no RecordGauge call is inside its critical section, the
\* series map holds exactly one entry per fingerprint written and not
\* evicted since, each with the value, attributes and time of the most
\* recent call for that fingerprint; a collection cycle emits these values.
C7_LastWriterWins ==
    /\ (\A r \in Recorders : pc[r] = "idle") =>
        /\ DOMAIN currentVals =
               {k \in DOMAIN lastCall :
                    k \notin DOMAIN evicted \/ evicted[k] # "evicted"}
        /\ \A k \in DOMAIN currentVals :
               /\ currentVals[k].value = lastCall[k].value
               /\ AttrSet(currentVals[k].attrs) = lastCall[k].attrs
               /\ currentVals[k].updatedAt = lastCall[k].at
    /\ \A c \in Collectors :
        /\ \A o \in BagToSet(col[c].emitted) :
               o.value = lastCall[o.key].value /\ AttrSet(o.attrs) = lastCall[o.key].attrs
        /\ CycleDone(c) =>
               \A k \in DOMAIN currentVals :
                   \E o \in ObsOf(c, k) : CopiesIn(o, col[c].emitted) = 1

\* two calls wrote the same fingerprint, and a cycle emitted the second value
C7_Witness ==
    \E c \in Collectors : CycleDone(c) /\
        \E o \in BagToSet(col[c].emitted) :
            /\ nstarted = 2 /\ DOMAIN lastCall = {o.key}
            /\ lastCall[o.key].call = 2
            /\ o.value = 9
            /\ evicted = <<>>

\* C8: the collector never observes a series whose value, attributes and
\* timestamp were written by different RecordGauge calls.
C8_NoTornSeries ==
    \A c \in Collectors : \A o \in BagToSet(col[c].emitted) :
        /\ o.by.value # 0
        /\ o.by.value = o.by.attrs
        /\ o.by.attrs = o.by.updatedAt

\* a cycle emitted a series that two RecordGauge calls have written, while
\* it overlaps another cycle
C8_Witness ==
    \E c \in Collectors : \E o \in BagToSet(col[c].emitted) :
        /\ nstarted = 2 /\ DOMAIN lastCall = {o.key}
        /\ o.by.updatedAt = 2
        /\ \E d \in Collectors \ {c} : pc[d] # "idle"

\* a collection cycle is at an entry older than the TTL at its `now`
EvictableBy(t, key) ==
    /\ pc[t] = "evict"
    /\ key \in col[t].todo
    /\ col[t].now - currentVals[key].updatedAt > defaultGaugeMetricTTL

\* a RecordGauge call holding the write lock is writing the fields of key
WrittenBy(t, key) ==
    /\ pc[t] \in {"value", "attrs", "updatedAt"}
    /\ rec[t].key = key
    /\ mu.w = t

\* C30: a series leaves the map only in a step of a collection cycle at
\* whose `now` it is older than the TTL, and a series that stays changes its
\* value, attributes or timestamp only in a step of a RecordGauge call for
\* its own fingerprint.
C30_RemovedOnlyByEviction ==
    [][\A key \in DOMAIN currentVals :
          /\ key \notin DOMAIN currentVals' =>
                \E t \in Collectors : EvictableBy(t, key)
          /\ (key \in DOMAIN currentVals' /\ currentVals'[key] # currentVals[key]) =>
                \E t \in Recorders : WrittenBy(t, key)]_vars

\* one series has been evicted while another one, written later, is kept
C30_Witness ==
    \E k1 \in DOMAIN evicted : \E k2 \in DOMAIN currentVals :
        /\ evicted[k1] = "evicted"
        /\ k1 \notin DOMAIN currentVals
        /\ k2 # k1
        /\ currentVals[k2].updatedAt >= 0
        /\ \A t \in Recorders : pc[t] = "idle"

(***************************************************************************)
(* Properties of hashAttrs (SpecHash)                                      *)
(***************************************************************************)
\* C5: hashAttrs returns the same string for every ordering of the same
\* attribute set, and leaves both slices in the same order.
C5_OrderIndependent ==
    DOMAIN hkey = {1, 2} => hkey[1] = hkey[2] /\ hattrs[1] = hattrs[2]

\* both calls are done, on two different orders of at least two attributes
C5_Witness ==
    /\ DOMAIN hkey = {1, 2}
    /\ horder[1] # horder[2]
    /\ Len(hattrs[1]) >= 2
    /\ mapToAttribute(hmap, horder[1]) # mapToAttribute(hmap, horder[2])

(***************************************************************************)
(* Properties of the log dispatcher (SpecLog)                              *)
(***************************************************************************)
\* how many times sink i was given the record being dispatched
Deliveries(i) ==
    Cardinality({n \in DOMAIN received[i] : received[i][n].id = lrec.id})

\* the dispatch of the current record is over
Dispatched == lpc = "returned" /\ lrec.id # 0

\* C9: when a sink returns an error for a record, every other sink that
\* accepts the level of the record still receives the record exactly once.
C9_FailureDoesNotStopFanOut ==
    Dispatched =>
        \A i \in SinkIds :
            (/\ SinkEnabled(handlers[i], lrec.level)
             /\ \E j \in SinkIds \ {i} :
                    /\ handlers[j].fails
                    /\ SinkEnabled(handlers[j], lrec.level)
                    /\ Deliveries(j) >= 1)
            => Deliveries(i) = 1

\* C10: a sink whose minimum level is above the level of the record does
\* not receive it, and every sink whose minimum level is at or below that
\* level receives it (stated for the dispatches in which no sink fails, so
\* that it does not rest on C9).
C10_PerSinkLevelFilter ==
    (Dispatched /\ \A j \in SinkIds : ~handlers[j].fails) =>
        \A i \in SinkIds :
            IF handlers[i].min > lrec.level
            THEN Deliveries(i) = 0
            ELSE Deliveries(i) = 1
(***************************************************************************)
(* Properties of Spans (SpecSpan) and carriers (SpecCarrier)               *)
(***************************************************************************)
\* the Spans that were committed at least once
Committed == {i \in DOMAIN spans : spans[i].first.committed}

\* the last value that SetAttribute calls wrote under each key
RECURSIVE LastWritten(_)
LastWritten(sets) ==
    IF sets = <<>> THEN <<>>
    ELSE (sets[Len(sets)][1] :> sets[Len(sets)][2]) @@ LastWritten(SubSeq(sets, 1, Len(sets) - 1))

C13_CommitApplies ==
    \A i \in Committed :
        LET f == spans[i].first
            last == LastWritten(f.sets)
            typed == {k \in DOMAIN last : last[k].kind \in {"int", "string"}}
            exceptions == {n \in DOMAIN f.coreSpan.events :
                               f.coreSpan.events[n].name = "exception"}
        IN spans[i].coreSpan.recording =>
            /\ f.spanAttributes = last
            /\ DOMAIN f.coreSpan.attributes = typed
            /\ \A k \in typed :
                   f.coreSpan.attributes[k] =
                       [type |-> IF last[k].kind = "int" THEN "INT64" ELSE "STRING",
                        v |-> last[k].v]
            /\ IF f.err # "nil"
               THEN /\ f.coreSpan.status = [Code |-> "Error", Description |-> f.err]
                    /\ \E n \in exceptions : f.coreSpan.events[n].message = f.err
                    /\ Cardinality(exceptions) = 1
               ELSE /\ f.coreSpan.status.Code = "Ok"
                    /\ exceptions = {}
            /\ f.coreSpan.ended

\* a Span was committed with a pending error after a key was written twice
C13_Witness ==
    \E i \in Committed :
        /\ spans[i].coreSpan.recording
        /\ spans[i].first.err = "boom"
        /\ Len(spans[i].first.sets) = 2
        /\ spans[i].first.sets[1][1] = spans[i].first.sets[2][1]
        /\ spans[i].first.sets[1][2] # spans[i].first.sets[2][2]
        /\ spans[i].first.sets[2][2].kind = "int"

\* s2 was started from the extraction of the carrier exported from s1
StartedFromCarrierOf(s2, s1) ==
    /\ s1 # s2
    /\ carrier.from = "context" /\ carrier.ctx = spans[s1].spanCtx
    /\ extracted.done /\ extracted.from = carrier.c
    /\ spans[s2].parentCtx = extracted.ctx

\* C14: a Span s2 started from Extract(c), c exported from the context of
\* s1, has the trace id of s1 and the span id of s1 as its parent, whether
\* or not s1 was committed before.
C14_CarrierLinksSpans ==
    \A s1, s2 \in DOMAIN spans : StartedFromCarrierOf(s2, s1) =>
        /\ spans[s2].coreSpan.sc.tid = spans[s1].coreSpan.sc.tid
        /\ spans[s2].coreSpan.parent = spans[s1].coreSpan.sc.sid
        /\ spans[s2].coreSpan.sc.sid # spans[s1].coreSpan.sc.sid

\* scenario A: s1 got an attribute, was exported and committed; then s2 was
\* started from the carrier
C14_Witness ==
    \E s1, s2 \in DOMAIN spans :
        /\ StartedFromCarrierOf(s2, s1)
        /\ s1 \in spans[s2].endedThen
        /\ spans[s1].first.committed
        /\ spans[s1].first.spanAttributes = (StrX :> GoVal("int", 1))

\* C15 as claimed: for every non-empty carrier c, the carrier exported from
\* Extract(c) equals c.
C15_RoundTripAnyCarrier ==
    (carrier.from = "extracted" /\ ~IsZero(carrier.of)) => carrier.c = carrier.of

\* a carrier in the form ExportTraceCarrier writes: a version-00 traceparent
\* with non-zero ids and flags 00 or 01, a tracestate only next to it, one
\* well-formed baggage member, and no other field
ExportedForm(c) ==
    /\ DOMAIN c \subseteq {"traceparent", "tracestate", "baggage"}
    /\ "traceparent" \in DOMAIN c =>
           /\ Len(c["traceparent"]) = 4
           /\ c["traceparent"][1] = 0
           /\ c["traceparent"][2] # 0 /\ c["traceparent"][3] # 0
           /\ c["traceparent"][4] \in {0, 1}
    /\ "tracestate" \in DOMAIN c =>
           "traceparent" \in DOMAIN c /\ c["tracestate"] \notin {"", "bad"}
    /\ "baggage" \in DOMAIN c => c["baggage"] \notin {"", "bad"}

\* C15, amended: for every non-empty carrier c in the form that
\* ExportTraceCarrier writes, the carrier exported from Extract(c) equals c.
C15_RoundTripExported ==
    (carrier.from = "extracted" /\ ~IsZero(carrier.of) /\ ExportedForm(carrier.of))
        => carrier.c = carrier.of

\* a carrier with traceparent, tracestate and baggage made the round trip
C15_Witness ==
    /\ carrier.from = "extracted"
    /\ ExportedForm(carrier.of)
    /\ DOMAIN carrier.of = {"traceparent", "tracestate", "baggage"}
    /\ carrier.c = carrier.of

\* C16: extracting an empty carrier yields a context without trace
\* identity: a Span started from it is a new root, and the carrier exported
\* from it is empty.
C16_EmptyCarrierInert ==
    (extracted.done /\ IsZero(extracted.from)) =>
        /\ ~IsValid(extracted.ctx.sc)
        /\ \A j \in DOMAIN spans : spans[j].parentCtx = extracted.ctx =>
               /\ spans[j].coreSpan.parent = 0
               /\ \A i \in 1..(j - 1) :
                      spans[i].coreSpan.sc.tid # spans[j].coreSpan.sc.tid
        /\ (carrier.from = "extracted" /\ IsZero(carrier.of)) => IsZero(carrier.c)

\* the empty carrier was extracted, exported again, and a Span was started
\* from the extracted context next to another Span
C16_Witness ==
    /\ extracted.done /\ IsZero(extracted.from)
    /\ carrier.from = "extracted" /\ IsZero(carrier.of) /\ IsZero(carrier.c)
    /\ \E j \in DOMAIN spans :
           spans[j].parentCtx = extracted.ctx /\ Len(spans) = 2

(***************************************************************************)
(* Properties of BulkAsync_GetById (SpecBulk)                              *)
(***************************************************************************)
\* the function that created a Span has returned
CreatorReturned(name) ==
    IF name[2] = "dispatching" THEN bulkLoop.returned
    ELSE bulkWorkers[name[1]].pc = "returned"

\* C12: every Span created by BulkAsync_GetById or by one of its goroutines
\* has been committed exactly once when the function that created it has
\* returned.
C12_CommittedOnceAtReturn ==
    \A name \in DOMAIN bulkSpans :
        CreatorReturned(name) => bulkSpans[name].dones = 1

(***************************************************************************)
(* Properties of the correlation cache (SpecCache)                         *)
(***************************************************************************)
\* what Get(group, key) returns from the store db when the server answers
Lookup(db, group, key) ==
    LET r == HGet(db, getGroupKey(ocache, group), key)
    IN IF r.err = "redis.Nil" THEN [err |-> "nil", carrier |-> <<>>, hit |-> FALSE]
       ELSE [err |-> jsonUnmarshal(r.val).err,
             carrier |-> jsonUnmarshal(r.val).carrier, hit |-> TRUE]

\* the last call was made on a configured cache and the server answered
Answered == ocache.configured /\ cacheCall.op # "none" /\ cacheCall.backend = "ok"

\* the last call names one group
GroupCall == cacheCall.op \in {"get", "set", "delete", "deleteGroup"}

\* C17: a call on one group leaves every key of every other group with what
\* Get returned for it before the call, and after DeleteGroup(g1) every key
\* of g1 is a miss.
C17_GroupIsolation ==
    (ocache.configured /\ GroupCall) =>
        /\ \A g \in Groups \ {cacheCall.group} : \A k \in CacheKeys :
              Lookup(redis, g, k) = Lookup(cacheCall.before, g, k)
        /\ (cacheCall.op = "deleteGroup" /\ cacheCall.backend = "ok") =>
              /\ cacheCall.err = "nil"
              /\ \A k \in CacheKeys : ~Lookup(redis, cacheCall.group, k).hit

\* DeleteGroup(batch1) has just deleted both keys of batch1 while both keys of
\* batch2 hold carriers
C17_Witness ==
    /\ Answered
    /\ cacheCall.op = "deleteGroup"
    /\ cacheCall.group = <<"batch", "1">>
    /\ \A k \in CacheKeys : Lookup(cacheCall.before, <<"batch", "1">>, k).hit
    /\ Lookup(redis, <<"batch", "2">>, <<"item", "1">>).carrier = CarrierC
    /\ Lookup(redis, <<"batch", "2">>, <<"item", "2">>).carrier = CarrierD

\* what scenario C is to return, call by call
ScenarioCReturns ==
    << [err |-> "nil", carrier |-> <<>>],
       [err |-> "nil", carrier |-> CarrierC],
       [err |-> "nil", carrier |-> <<>>],
       [err |-> "nil", carrier |-> <<>>],
       [err |-> "nil", carrier |-> <<>>] >>

\* C18: from an empty cache, Set(batch1, item1, c); Get(batch1, item1);
\* Get(batch1, item2); DeleteGroup(batch1); Get(batch1, item1) return no
\* error; c; an empty carrier and no error; no error; an empty carrier and no
\* error.
C18_ScenarioC ==
    \A n \in 1..Len(scenario) : scenario[n] = ScenarioCReturns[n]

\* the five calls of scenario C have been made
C18_Witness == Len(scenario) = Len(ScenarioC)

C21_LastWriteWins ==
    (Answered /\ cacheCall.op = "set") =>
        /\ Lookup(redis, cacheCall.group, cacheCall.key) =
              [err |-> "nil", carrier |-> cacheCall.arg, hit |-> TRUE]
        /\ (Lookup(cacheCall.before, cacheCall.group, cacheCall.key) =
               [err |-> "nil", carrier |-> cacheCall.arg, hit |-> TRUE])
              => redis = cacheCall.before

\* Set(g, k, d) has just replaced the carrier c stored under (g, k)
C21_Witness ==
    /\ Answered
    /\ cacheCall.op = "set"
    /\ cacheCall.arg = CarrierD
    /\ Lookup(cacheCall.before, cacheCall.group, cacheCall.key).carrier = CarrierC
    /\ Lookup(redis, cacheCall.group, cacheCall.key).carrier = CarrierD

(***************************************************************************)
(* Properties of concurrent use of the cache (SpecRace)                    *)
(***************************************************************************)
\* the keys of the deleted group that Get would find now
KeysPresent ==
    {k \in CacheKeys : Lookup(redis, deleter.group, k).hit}

\* C22: while DeleteGroup(g) runs next to Gets on keys of g, the keys written
\* before are all present or all missing, and no reader that has seen a key
\* of g missing sees a key of g present afterwards.
C22_GroupDeletedAtOnce ==
    /\ KeysPresent \in {{}, CacheKeys}
    /\ \A r \in DOMAIN readers : \A i, j \in DOMAIN readers[r].seen :
          (i < j /\ readers[r].seen[i].saw = "missing")
              => readers[r].seen[j].saw # "present"

\* the delete went between the two Gets of a reader: it saw one key present
\* and then the other missing
C22_Witness ==
    /\ deleter.pc = "returned"
    /\ deleter.err = "nil"
    /\ \E r \in DOMAIN readers :
          /\ Len(readers[r].seen) = 2
          /\ readers[r].seen[1].saw = "present"
          /\ readers[r].seen[2].saw = "missing"
          /\ readers[r].seen[1].key # readers[r].seen[2].key

(***************************************************************************)
(* Properties of registration and of the recording calls (SpecObserver)    *)
(***************************************************************************)
\* the last call was a recording call on a configured meter
Recorded(kind) ==
    apiCall.api = "record" /\ apiCall.kind = kind /\ observer.meter

\* the name of the last call was registered under its kind before the call
WasRegistered ==
    Get(apiCall.name) \in DOMAIN apiCall.before.mcm[MapOf(apiCall.kind)]

\* the total of an instrument for one attribute set
Total(meters, handle, attrSet) ==
    IF handle \in DOMAIN meters.instruments
       /\ attrSet \in DOMAIN meters.instruments[handle].sums
    THEN meters.instruments[handle].sums[attrSet]
    ELSE 0

\* nothing the calls can change was changed by the last call
NothingChanged ==
    /\ mcm = apiCall.before.mcm
    /\ sdk = apiCall.before.sdk

\* C23: RecordCounter with a negative value on a registered counter changes
\* no total, logs a diagnostic and returns, and no call makes the total of a
\* counter smaller than it was.
C23_NegativeDeltaDropped ==
    /\ (Recorded("counter") /\ WasRegistered /\ apiCall.value < 0) =>
          /\ NothingChanged
          /\ apiCall.diag = "Value must be non-negative"
          /\ proc = "running"
    /\ apiCall.api # "none" =>
          \A h \in DOMAIN sdk.instruments : \A attrSet \in DOMAIN sdk.instruments[h].sums :
              sdk.instruments[h].kind = "counter" =>
                  Total(sdk, h, attrSet) >= Total(apiCall.before.sdk, h, attrSet)

\* RecordCounter(requests, -1) on a counter whose total is 2
C23_Witness ==
    /\ Recorded("counter")
    /\ WasRegistered
    /\ apiCall.value < 0
    /\ \E attrSet \in DOMAIN sdk.instruments[mcm.counters[Get(apiCall.name)]].sums :
          Total(sdk, mcm.counters[Get(apiCall.name)], attrSet) = 2

\* C24: a recording call whose name is not registered under its kind logs
\* "Not found", returns, and changes neither an instrument nor a gauge
\* series.
C24_UnknownNameDropped ==
    /\ \A kind \in Kinds :
          (Recorded(kind) /\ ~WasRegistered) =>
              /\ NothingChanged
              /\ apiCall.diag = "Not found"
              /\ proc = "running"

\* a gauge is recorded under a name that is registered as a counter only
C24_Witness ==
    /\ Recorded("gauge")
    /\ ~WasRegistered
    /\ Get(apiCall.name) \in DOMAIN mcm.counters

\* the last call registered a definition
Registered == apiCall.api = "register"

\* the registration stored one new instrument under the name, in the map of
\* its kind, and nothing else
StoredOneHandle ==
    LET map == MapOf(apiCall.kind)
        was == apiCall.before
    IN /\ apiCall.err = "nil"
       /\ DOMAIN mcm[map] = DOMAIN was.mcm[map] \cup {Get(apiCall.name)}
       /\ \A n \in DOMAIN was.mcm[map] : mcm[map][n] = was.mcm[map][n]
       /\ \A other \in {MapOf(kd) : kd \in Kinds} \ {map} : mcm[other] = was.mcm[other]
       /\ Cardinality(DOMAIN sdk.instruments) = Cardinality(DOMAIN was.sdk.instruments) + 1
       /\ \A h \in DOMAIN was.sdk.instruments : sdk.instruments[h] = was.sdk.instruments[h]

\* the registration returned an error and stored nothing
StoredNothing == apiCall.err # "nil" /\ NothingChanged

\* C25 as stated: a name already registered under the kind gives an error
\* and changes nothing; any other name stores exactly one new handle.
C25_RegisterStoresOneHandle ==
    Registered => IF WasRegistered THEN StoredNothing ELSE StoredOneHandle

\* C25: a name already registered under the kind gives an error and changes
\* nothing; any other name stores exactly one new handle when the meter
\* accepts the name, and otherwise gives an error and stores nothing.
C25_RegisterStoresOneHandleIfAccepted ==
    Registered =>
        IF WasRegistered THEN StoredNothing
        ELSE IF sdkAccepts(Get(apiCall.name)) THEN StoredOneHandle
        ELSE StoredNothing

\* a gauge was registered a second time: the call returned "already exists"
\* and the gauge of the first registration is still the one stored
C25_Witness ==
    /\ Registered
    /\ apiCall.kind = "gauge"
    /\ WasRegistered
    /\ apiCall.err = "already exists"
    /\ mcm.gauges[Get(apiCall.name)].instrument \in sdk.callbacks

\* the component the last call needs was never configured
OnUnconfigured ==
    \/ apiCall.api = "record" /\ ~observer.meter
    \/ apiCall.api = "log" /\ ~observer.logger
    \/ apiCall.api = "newSpan" /\ ~observer.tracer

\* C26: a recording, logging or span-starting call on a component that was
\* never configured does not panic, is reported as a diagnostic (or served
\* by the default tracer) and changes nothing.
C26_UnconfiguredNeverPanics ==
    OnUnconfigured =>
        /\ proc = "running"
        /\ apiCall.diag # ""
        /\ NothingChanged

(***************************************************************************)
(* Properties of Shutdown (SpecShutdown)                                   *)
(***************************************************************************)
\* C27: when Shutdown has returned, the sub-shutdowns invoked are the
\* registered ones, each once and in registration order, whatever the
\* earlier ones returned, and all were given the context with the one
\* deadline set at the start.
C27_EverySubShutdownOnce ==
    /\ \A k \in DOMAIN sd.invoked :
          /\ sd.invoked[k].name = shutdowns[k]
          /\ sd.invoked[k].deadline = sd.deadline
    /\ sd.pc = "returned" => Len(sd.invoked) = Len(shutdowns)

\* three sub-shutdowns: the first failed, the second used up the deadline,
\* the third was still invoked, after the deadline
C27_Witness ==
    /\ sd.pc = "returned"
    /\ Len(sd.invoked) = 3
    /\ sd.invoked[1].outcome = "error"
    /\ sd.invoked[2].outcome = "deadline exceeded"
    /\ sd.invoked[3].at = sd.deadline

(***************************************************************************)
(* Properties of concurrent logging (SpecLogRace)                          *)
(***************************************************************************)
\* C28: every record a sink was given carries the trace id and the span id
\* of the context of the call that made it, empty strings when that context
\* has no span, whatever other calls were made before or meanwhile.
C28_RecordCarriesOwnIds ==
    \A i \in DOMAIN received : \A k \in DOMAIN received[i] :
        LET d == received[i][k]
        IN /\ d.rec.trace_id =
                 (IF d.ctx = "background" THEN "" ELSE "trace-of-" \o d.ctx)
           /\ d.rec.span_id =
                 (IF d.ctx = "background" THEN "" ELSE "span-of-" \o d.ctx)

\* a sink was given the record of a call under span1 after another goroutine
\* had started a call under span2, and the record of that call as well
C28_Witness ==
    \E i \in DOMAIN received : \E k, l \in DOMAIN received[i] :
        /\ k < l
        /\ received[i][k].ctx = "span2" /\ received[i][l].ctx = "span1"
        /\ received[i][k].by # received[i][l].by
        /\ received[i][k].rec.id > received[i][l].rec.id

(***************************************************************************)
(* Properties of SetError (SpecSpan)                                       *)
(***************************************************************************)
\* the calls of one kind among the calls made on a Span
CallsOf(ops, name) == {k \in DOMAIN ops : ops[k].op = name}

\* the positions of the SetError calls that gave an error
ErrorsSet(ops) == {k \in CallsOf(ops, "SetError") : ops[k].err # "nil"}

\* C29: a Span that has not been committed is Active whatever SetError calls
\* were made on it: its underlying span has not ended and has no status, the
\* pending error is the argument of the latest SetError, and every
\* SetAttribute and AddEvent made on it, before or after a SetError, took
\* effect (an event on every underlying span that records).
C29_SetErrorOnlyRecords ==
    \A i \in DOMAIN spans :
        spans[i].dones = 0 =>
            LET ops == spans[i].ops
                core == spans[i].coreSpan
                errs == CallsOf(ops, "SetError")
            IN /\ ~core.ended
               /\ core.status.Code = "Unset"
               /\ IsRecording(core) = core.recording
               /\ spans[i].err = (IF errs = {} THEN "nil"
                                  ELSE ops[CHOOSE k \in errs : \A l \in errs : l <= k].err)
               /\ Cardinality(CallsOf(ops, "SetAttribute")) = Len(spans[i].sets)
               /\ \A k \in DOMAIN spans[i].sets :
                      spans[i].sets[k][1] \in DOMAIN spans[i].spanAttributes
               /\ core.recording =>
                      Len(core.events) = Cardinality(CallsOf(ops, "AddEvent"))

\* an error was set on a Span that records, and after it an attribute, an
\* event and another error were accepted; the Span is not committed
C29_Witness ==
    \E i \in DOMAIN spans :
        /\ spans[i].dones = 0 /\ spans[i].coreSpan.recording
        /\ \E k \in ErrorsSet(spans[i].ops) :
              /\ \E l \in CallsOf(spans[i].ops, "SetAttribute") : l > k
              /\ \E l \in CallsOf(spans[i].ops, "AddEvent") : l > k
              /\ \E l \in CallsOf(spans[i].ops, "SetError") : l > k
        /\ Len(spans[i].coreSpan.events) = 1
        /\ spans[i].spanAttributes # <<>>

(***************************************************************************)
(* Properties of the attribute conversion (SpecCodec)                      *)
(***************************************************************************)
\* a Go value that has a typed attribute: a string, a bool, or an integer of
\* one of the four integer types whose number is an int64
Representable(val) ==
    \/ val.kind \in {"string", "bool"}
    \/ val.kind \in {"int", "int64", "uint", "uint64"}
         /\ 0 - MaxInt64 - 1 <= val.v /\ val.v <= MaxInt64

\* the positions of the output that hold the key k
Positions(attrs, k) == {p \in DOMAIN attrs : attrs[p].Key = k}

\* C31: after a conversion, every entry whose value has no typed attribute
\* is absent from the output and its key is among the keys reported, and
\* every other entry is in the output exactly once.
C31_DroppedWithDiagnostic ==
    \A i \in DOMAIN codec.out :
        \A k \in DOMAIN codec.maps[i] :
            IF Representable(codec.maps[i][k])
            THEN Cardinality(Positions(codec.out[i], k)) = 1
            ELSE /\ Positions(codec.out[i], k) = {}
                 /\ \E p \in DOMAIN codec.logged[i] : codec.logged[i][p] = k

\* C40: after a conversion, every attribute produced for an entry of an
\* integer type has the number of the input as its value.
C40_IntegerValuePreserved ==
    \A i \in DOMAIN codec.out :
        \A k \in DOMAIN codec.maps[i] :
            codec.maps[i][k].kind \in {"int", "int64", "uint", "uint64"} =>
                \A p \in Positions(codec.out[i], k) :
                    /\ codec.out[i][p].Value.type = "INT64"
                    /\ codec.out[i][p].Value.v = codec.maps[i][k].v

\* two attributes with the same key, value type and value
SameAttr(a, b) ==
    a.Key = b.Key /\ a.Value.type = b.Value.type /\ a.Value.v = b.Value.v

\* two slices, sorted by key, that hold the same attributes
SameAttrs(s1, s2) ==
    Len(s1) = Len(s2) /\ \A p \in DOMAIN s1 : SameAttr(s1[p], s2[p])

\* C34: two RecordGauge calls whose attribute sets differ in a key, a value
\* or a value type have different fingerprints, and the series of the first
\* call still holds what the first call wrote.
C34_DistinctSetsDistinctSeries ==
    (DOMAIN codec.out = CodecCalls
        /\ ~SameAttrs(SortSlice(codec.out[1]), SortSlice(codec.out[2]))) =>
       /\ codec.keys[1] # codec.keys[2]
       /\ codec.currentVals[codec.keys[1]].value = 1

(***************************************************************************)
(* Properties of the contexts of a Span (SpecSpan)                         *)
(***************************************************************************)
\* C33: in every revision, ParentContext() of a Span is the context that
\* NewSpan was given, a Span started from it has the parent of this Span and
\* not this Span as its parent, and Context() holds this Span.
C33_ParentContextGivesSibling ==
    \A revision \in SpanRevisions : \A i \in DOMAIN spans :
        /\ ParentContext(revision, spans[i]) = spans[i].parentCtx
        /\ SpanCtx(spans[i]).sc = spans[i].coreSpan.sc
        /\ \A j \in DOMAIN spans :
              (j > i /\ spans[j].parentCtx = ParentContext(revision, spans[i])) =>
                  /\ spans[j].coreSpan.parent = spans[i].coreSpan.parent
                  /\ spans[j].coreSpan.parent # spans[i].coreSpan.sc.sid

(***************************************************************************)
(* Properties of ClearCacheTraceCarrier (SpecShared, SpecCache)            *)
(***************************************************************************)
\* the latest call was ClearCacheTraceCarrier on a configured cache
Cleared == cacheCall.op = "clear" /\ ocache.configured

\* C35: after ClearCacheTraceCarrier on channel C, every key that another
\* channel held before the call is still there with its entries, whatever
\* the name of that channel, and when the call returned no error no group
\* of channel C is left.
C35_ClearKeepsOtherChannels ==
    Cleared =>
        /\ \A ch \in OtherChannels : \A k \in ChannelKeys(ch) :
              k \in DOMAIN cacheCall.before =>
                  k \in DOMAIN redis /\ redis[k] = cacheCall.before[k]
        /\ cacheCall.err = "nil" =>
              \A k \in ChannelKeys(ocache.channel) : k \notin DOMAIN redis

\* C36: ClearCacheTraceCarrier on a configured cache that holds no
\* trace-carrier key returns no error and deletes nothing, and when it
\* returns an error it had found a key and the server refused the delete.
C36_ClearOfNothingIsNoError ==
    Cleared =>
        /\ (cacheCall.backend = "ok"
              /\ Scan(cacheCall.before, getChannelKey(ocache)) = {}) =>
                 cacheCall.err = "nil" /\ redis = cacheCall.before
        /\ cacheCall.err # "nil" =>
              /\ Scan(cacheCall.before, getChannelKey(ocache)) # {}
              /\ cacheCall.backend # "ok"

(***************************************************************************)
(* Properties of the once-guarded NewOtelObserver (SpecOnce)               *)
(***************************************************************************)
\* C37: every call of NewOtelObserver returned a function, no call of a
\* returned function has panicked, and no component was initialised more
\* than once.
C37_EveryCallReturnsShutdown ==
    /\ \A k \in DOMAIN singleton.returned : singleton.returned[k] = "func"
    /\ singleton.proc # "panicked"
    /\ \A c \in DOMAIN singleton.inits : singleton.inits[c] <= 1

\* the components are initialised at most once per process
InitialisedAtMostOnce ==
    \A c \in DOMAIN singleton.inits : singleton.inits[c] <= 1

(***************************************************************************)
(* Properties of the service functions (SpecSvc)                           *)
(***************************************************************************)
\* C32: every call that returned an error left its Span, when it records,
\* ended with the status Error and that error as the description.
C32_ErrorReturnCommitsError ==
    \A k \in DOMAIN svc.finished :
        LET d == svc.finished[k] IN
        (d.ret # "nil" /\ d.span.recording) =>
            /\ d.span.ended
            /\ d.span.status = [Code |-> "Error", Description |-> d.ret]

\* the same for the function that defers span.End()
GetByIdCommitsError ==
    \A k \in DOMAIN svc.finished :
        LET d == svc.finished[k] IN
        (d.fn = "GetById" /\ d.ret # "nil" /\ d.span.recording) =>
            /\ d.span.ended
            /\ d.span.status = [Code |-> "Error", Description |-> d.ret]

(***************************************************************************)
(* Properties of the cache entries of BulkAsync_GetById (SpecBulk)         *)
(***************************************************************************)
\* the worker of iteration w has read its carrier and started its Span
Resumed(w) == <<w, "fromCarrier">> \in DOMAIN bulkSpans

\* every cache call so far was answered without an error
CacheCallsSucceeded == ocache.configured /\ bulkFaults = 0

\* C38: when the cache calls succeed, the Span a worker starts from the
\* carrier it read has the trace of the dispatching Span of its own
\* iteration and that Span as its parent, and no two workers have the same
\* trace.
C38_WorkerResumesOwnTrace ==
    CacheCallsSucceeded =>
        \A w \in 1..BulkIterations : Resumed(w) =>
            LET own == bulkSpans[<<w, "dispatching">>].coreSpan
                resumed == bulkSpans[<<w, "fromCarrier">>].coreSpan
            IN /\ resumed.sc.tid = own.sc.tid
               /\ resumed.parent = own.sc.sid
               /\ \A v \in 1..BulkIterations :
                     (v # w /\ Resumed(v)) =>
                         bulkSpans[<<v, "fromCarrier">>].coreSpan.sc.tid # resumed.sc.tid

\* every worker has resumed a trace and every cache call has succeeded
C38_Witness ==
    /\ CacheCallsSucceeded
    /\ \A w \in 1..BulkIterations : Resumed(w)
    /\ \E w \in 1..BulkIterations : bulkWorkers[w].pc = "returned"

\* the entry written for iteration w is in the group
EntryLeft(w) ==
    LET rkey == getGroupKey(ocache, BulkGroup)
    IN rkey \in DOMAIN redis /\ BulkKey(w) \in DOMAIN redis[rkey]

\* C39: a worker that has returned, by the return after a failed GetById or
\* at the end of its function, has left no entry for its iteration in the
\* group, as long as the server answered the commands.
C39_WorkerDeletesItsEntry ==
    \A w \in 1..BulkIterations :
        (ocache.configured /\ bulkWorkers[w].pc = "returned"
            /\ (bulkFaults = 0 \/ bulkSpans[bulkWorkers[w].span].err # "nil")) =>
           ~EntryLeft(w)

====
